---------------------------- MODULE Spec2Model ----------------------------
(***************************************************************************)
(* A model of generate-workflow.py: the generator of the GitHub workflows  *)
(* and of the local script that run the 3C benchmark tests.                *)
(*                                                                         *)
(* Five specifications share the module:                                   *)
(*   SpecName  the subvariant expander (lines 557-580) applied to          *)
(*             arbitrary bounded inputs;                                   *)
(*   Spec      the generator itself, from the parsed arguments to the      *)
(*             files it writes;                                            *)
(*   SpecRun   the execution, by the shell, of the steps of one generated  *)
(*             job;                                                        *)
(*   SpecEngine  the generator in its default mode, followed by the CI     *)
(*             engine scheduling the jobs of a workflow file it wrote;     *)
(*   SpecPar   two benchmark jobs of one workflow, their steps run by two  *)
(*             shells in any interleaving on one file system.              *)
(*                                                                         *)
(* Text is modelled as sequences of one-character strings wherever the     *)
(* code looks inside it (the subvariant identifier), and as atoms          *)
(* elsewhere.                                                              *)
(***************************************************************************)
EXTENDS Integers, Sequences, FiniteSets, TLC

VARIABLES
    pc,         \* where the program (or the shell running a job) stands
    sv_in,      \* SpecName: the (alltypes, expand_macros, extra_3c_args) given
    sv_out,     \* SpecName: the derived name and convert_extra
    args,       \* the parsed command line (argparse namespace `args`)
    exists,     \* which paths exist on disk when the program starts
    benchmarks, \* the benchmark table
    config,     \* the WorkflowConfig being generated
    loop,       \* generate_benchmark_jobs: indices of the three nested loops
    out,        \* the stream written to (the open file, or tmp_out)
    files,      \* the output files on disk
    last_call,  \* history: the last call of generate_benchmark_job
    job,        \* SpecRun: the job being run (its inputs and its steps)
    sh,         \* SpecRun: the state of the shell and of the job's files
    wf,         \* SpecEngine: the jobs of a dispatched workflow, and their status
    par         \* SpecPar: two jobs of a workflow running at once on one disk

vars ==
    <<pc, sv_in, sv_out, args, exists, benchmarks, config, loop, out, files,
      last_call, job, sh, wf, par>>

None == "None"

(***************************************************************************)
(* Bounds of the model.                                                    *)
(***************************************************************************)
MaxArgLen == 2      \* longest extra 3c argument drawn in SpecName
MaxArgs == 2        \* longest extra_3c_args list drawn in SpecName
MaxComponents == 2  \* most components of a benchmark drawn besides the table's

(***************************************************************************)
(* Text helpers: str.lstrip, str.replace, concatenation of a list.         *)
(***************************************************************************)
\* str.lstrip that removes one leading character at most.
lstrip_Once(s, c) ==
    IF s # <<>> /\ Head(s) = c THEN Tail(s) ELSE s

RECURSIVE lstrip(_, _)
lstrip(s, c) ==
    IF s # <<>> /\ Head(s) = c THEN lstrip(Tail(s), c) ELSE s

RECURSIVE replace(_, _, _)
replace(s, a, b) ==
    IF s = <<>> THEN <<>>
    ELSE <<IF Head(s) = a THEN b ELSE Head(s)>> \o replace(Tail(s), a, b)

\* str.rstrip, on a text kept whole.
RECURSIVE rstrip(_, _)
rstrip(s, c) ==
    IF Len(s) > 0 /\ SubSeq(s, Len(s), Len(s)) = c
    THEN rstrip(SubSeq(s, 1, Len(s) - 1), c) ELSE s

\* str.replace, on a text kept whole: every occurrence, left to right.
RECURSIVE str_replace(_, _, _)
str_replace(s, old, new) ==
    LET found == {i \in 1..(Len(s) - Len(old) + 1) :
                      SubSeq(s, i, i + Len(old) - 1) = old}
        first == CHOOSE i \in found : \A j \in found : i <= j
    IN  IF found = {} THEN s
        ELSE SubSeq(s, 1, first - 1) \o new \o
             str_replace(SubSeq(s, first + Len(old), Len(s)), old, new)

\* Lines 543-544
ensure_trailing_newline(s) ==
    IF s # "" /\ SubSeq(s, Len(s), Len(s)) # "\n" THEN s \o "\n" ELSE s

S_no == <<"n", "o", "_">>
S_expand_macros == <<"e", "x", "p", "a", "n", "d", "_", "m", "a", "c", "r", "o", "s", "_">>
S_alltypes == <<"a", "l", "l", "t", "y", "p", "e", "s">>

(***************************************************************************)
(* The subvariant expander of generate_benchmark_job.                      *)
(***************************************************************************)
\* Line 557-558: the name before the extra arguments are appended.
SubvariantBaseName(expand_macros, alltypes) ==
    (IF expand_macros THEN <<>> ELSE S_no) \o S_expand_macros \o
    (IF alltypes THEN <<>> ELSE S_no) \o S_alltypes

\* EargSuffix without the separating underscore.
EargSuffix_NoSeparator(earg) ==
    replace(lstrip(earg, "-"), "-", "_")

\* Line 575: what one extra argument adds to the name.
EargSuffix(earg) ==
    <<"_">> \o replace(lstrip(earg, "-"), "-", "_")

\* Lines 573-575: the loop over variant.extra_3c_args, as it grows the name.
RECURSIVE AppendEargSuffixes(_, _)
AppendEargSuffixes(name, eargs) ==
    IF eargs = <<>> THEN name
    ELSE AppendEargSuffixes(name \o EargSuffix(Head(eargs)), Tail(eargs))

\* Lines 557-575: subvariant_name as it stands after the loop.
SubvariantName(expand_macros, alltypes, extra_3c_args) ==
    AppendEargSuffixes(SubvariantBaseName(expand_macros, alltypes), extra_3c_args)

\* subvariant_convert_extra with the extra arguments taken last to first.
SubvariantConvertExtra_Reversed(expand_macros, alltypes, extra_3c_args) ==
    (IF alltypes
     THEN <<[flag |-> "--extra-3c-arg=", arg |-> <<"-">> \o S_alltypes, val |-> ""]>>
     ELSE <<>>) \o
    (IF expand_macros
     THEN <<[flag |-> "--expand_macros_before_conversion", arg |-> <<>>, val |-> ""]>>
     ELSE <<>>) \o
    [i \in 1..Len(extra_3c_args) |->
        [flag |-> "--extra-3c-arg=",
         arg |-> extra_3c_args[Len(extra_3c_args) + 1 - i], val |-> ""]]

\* Lines 562-574: subvariant_convert_extra, one entry per continuation line.
SubvariantConvertExtra(expand_macros, alltypes, extra_3c_args) ==
    (IF alltypes
     THEN <<[flag |-> "--extra-3c-arg=", arg |-> <<"-">> \o S_alltypes, val |-> ""]>>
     ELSE <<>>) \o
    (IF expand_macros
     THEN <<[flag |-> "--expand_macros_before_conversion", arg |-> <<>>, val |-> ""]>>
     ELSE <<>>) \o
    [i \in 1..Len(extra_3c_args) |->
        [flag |-> "--extra-3c-arg=", arg |-> extra_3c_args[i], val |-> ""]]

\* Lines 577-580: subvariant_friendly, as the pieces that are concatenated.
SubvariantFriendly(expand_macros, alltypes, friendly_name_suffix) ==
    (IF expand_macros THEN <<>> ELSE <<"not ">>) \o <<"macro-expanded, ">> \o
    (IF alltypes THEN <<>> ELSE <<"no ">>) \o <<"-alltypes">> \o
    (IF friendly_name_suffix = "" THEN <<>> ELSE <<friendly_name_suffix>>)

(***************************************************************************)
(* The configuration model: Variant, BenchmarkComponent, BenchmarkInfo,    *)
(* WorkflowConfig, and the literal tables of the program.  An Optional     *)
(* text is None or an atom; an Optional list is <<>> (unset) or <<list>>.  *)
(***************************************************************************)
Variant(alltypes, extra_3c_args, friendly_name_suffix, is_comparative_varient) ==
    [alltypes |-> alltypes,
     extra_3c_args |-> extra_3c_args,
     friendly_name_suffix |-> friendly_name_suffix,
     is_comparative_varient |-> is_comparative_varient]

BenchmarkComponent(friendly_name, subdir, build_dir) ==
    [friendly_name |-> friendly_name, subdir |-> subdir, build_dir |-> build_dir]

BenchmarkInfo(name, friendly_name, dir_name, build_cmds, build_converted_cmd, convert_extra, components, patch_dir, disallow) ==
    [name |-> name,
     friendly_name |-> friendly_name,
     dir_name |-> dir_name,
     build_cmds |-> build_cmds,
     build_converted_cmd |-> build_converted_cmd,
     convert_extra |-> convert_extra,
     components |-> components,
     patch_dir |-> patch_dir,
     disallow_for_comparative_varients |-> disallow]

\* is_allowed with the two flags combined the wrong way.
is_allowed_NeitherFlag(binfo, var) ==
    ~binfo.disallow_for_comparative_varients /\ ~var.is_comparative_varient

\* BenchmarkInfo.is_allowed
is_allowed(binfo, var) ==
    ~binfo.disallow_for_comparative_varients \/ ~var.is_comparative_varient

ptrdist_components == <<"anagram", "bc", "ft", "ks", "yacr2">>

olden_components ==
    <<"bh", "bisort", "em3d", "health", "mst", "perimeter", "power", "treeadd",
      "tsp", "voronoi">>

SubdirComponents(names) ==
    [i \in 1..Len(names) |-> BenchmarkComponent(names[i], names[i], None)]

(* Lines 60-142: the command texts shared by the benchmarks, and lines
   156-370: the build_cmds and build_converted_cmd of each benchmark. *)
common_cflags ==
    "-w -ferror-limit=0"

ninja_std ==
    "ninja -l $(nproc)"

make_std ==
    "make -j $(nproc) -l $(nproc) --output-sync"

make_checkedc ==
    make_std \o " CC=\"${{env.builddir}}/bin/clang\""

cmake_checkedc ==
    "cmake -DCMAKE_C_COMPILER=${{env.builddir}}/bin/clang"

vsftpd_make ==
    make_std \o " CC=\"${{env.builddir}}/bin/clang " \o common_cflags \o
    " -Wno-enum-conversion\""

thttpd_make ==
    "make CC=\"${{env.builddir}}/bin/clang " \o common_cflags \o "\""

vsftpd_build_cmds ==
    "bear " \o vsftpd_make

parson_build_cmds ==
    "bear " \o make_checkedc

olden_build_cmds ==
    "for i in bh bisort em3d health mst perimeter power treeadd tsp voronoi ; do \\\n" \o
    "  (cd $i ; bear " \o make_checkedc \o " LOCAL_CFLAGS=\"" \o
    common_cflags \o " -D_ISOC99_SOURCE\") \\\n" \o "done\n"

ptrdist_build_cmds ==
    "( cd yacr2\n" \o
    "  sed -Ei 's/^long (.*costMatrix)/ulong \\1/' assign.h\n" \o
    "  for header in *.h  ; do\n" \o
    "    src=\"$(basename \"$header\" .h).c\"\n" \o
    "    new_header=\"$(basename \"$header\" .h)_code.h\"\n" \o
    "    test -e \"$src\" || continue\n" \o
    "    sed -ne '/^#ifdef.*CODE/,/#else.*CODE/{ /^#/!p; }' \"$header\" >\"$new_header\"\n" \o
    "    sed -i \"/#define.*_CODE/d; /#include \\\"$header\\\"/a#include \\\"$new_header\\\"\" \"$src\"\n" \o
    "  done )\n" \o "( cd bc\n" \o
    "  sed -i '/^#include \"global.h\"$/d' global.c\n" \o
    "  cat global.h >>global.c )\n" \o
    "for i in anagram bc ft ks yacr2 ; do \\\n" \o "  (cd $i ; bear " \o
    make_checkedc \o " LOCAL_CFLAGS=\"" \o common_cflags \o
    " -D_ISOC99_SOURCE\") \\\n" \o "done\n"

libarchive_build_cmds ==
    "cd build\n" \o cmake_checkedc \o " -G Ninja -DCMAKE_C_FLAGS=\"" \o
    common_cflags \o " -D_GNU_SOURCE\" ..\n" \o "bear " \o ninja_std \o
    " archive\n"

lua_build_cmds ==
    "bear " \o make_checkedc \o " CFLAGS=\"" \o common_cflags \o
    "\" linux\n" \o "( cd src ; \\\n" \o
    "  ${{env.clang_rename}} -pl -i \\\n" \o
    "    --qualified-name=main \\\n" \o "    --new-name=luac_main \\\n" \o
    "    luac.c )\n"

libtiff_build_cmds ==
    cmake_checkedc \o " -G Ninja -DCMAKE_C_FLAGS=\"" \o common_cflags \o
    "\" .\n" \o "bear " \o ninja_std \o " tiff\n" \o "( cd tools ; \\\n" \o
    "  for i in *.c ; do \\\n" \o "    ${{env.clang_rename}} -pl -i \\\n" \o
    "      --qualified-name=main \\\n" \o
    "      --new-name=$(basename -s .c $i)_main $i ; \\\n" \o "  done)\n"

zlib_build_cmds ==
    "mkdir build\n" \o "cd build\n" \o cmake_checkedc \o
    " -G Ninja -DCMAKE_C_FLAGS=\"" \o common_cflags \o "\" ..\n" \o
    "bear " \o ninja_std \o " zlib\n"

icecast_build_cmds ==
    "sed -i '/_GNU_SOURCE/d' configure\n" \o
    "CC=\"${{env.builddir}}/bin/clang\" CFLAGS=\"" \o common_cflags \o
    "\" ./configure\n" \o "bear " \o make_std \o "\n"

thttpd_build_cmds ==
    "CC=\"${{env.builddir}}/bin/clang\" ./configure\n" \o
    "chmod -R 777 *\n" \o "bear " \o thttpd_make \o "\n"

\* The benchmark table of the program.
ConfiguredBenchmarks ==
    <<BenchmarkInfo("vsftpd", "Vsftpd", "vsftpd-3.0.3", vsftpd_build_cmds,
                    (vsftpd_make \o " -k"), None, <<>>, None, FALSE),
      BenchmarkInfo("Parson", "Parson", "parson", parson_build_cmds,
                    (make_checkedc \o " -k"), None, <<>>, None, FALSE),
      BenchmarkInfo("Olden", "Olden", "Olden", olden_build_cmds,
                    (make_checkedc \o " -k LOCAL_CFLAGS=\"" \o common_cflags \o " -D_ISOC99_SOURCE\""),
                    "--extra-3c-arg=-allow-unwritable-changes",
                    <<SubdirComponents(olden_components)>>, None, FALSE),
      BenchmarkInfo("ptrdist", "PtrDist", "ptrdist-1.1", ptrdist_build_cmds,
                    (make_checkedc \o " -k LOCAL_CFLAGS=\"" \o common_cflags \o " -D_ISOC99_SOURCE\""), None,
                    <<SubdirComponents(ptrdist_components)>>, None, FALSE),
      BenchmarkInfo("libarchive", "LibArchive", "libarchive-3.4.3",
                    libarchive_build_cmds, (ninja_std \o " -k 0 archive"),
                    "--skip libarchive",
                    <<(<<BenchmarkComponent(None, None, "build")>>)>>, None, FALSE),
      BenchmarkInfo("lua", "Lua", "lua-5.4.1", lua_build_cmds,
                    ("sed -i \"s/luac_main/main/\" src/luac.c\n" \o make_checkedc \o " -k CFLAGS=\"" \o common_cflags \o "\" linux\n"), None, <<>>, None, FALSE),
      BenchmarkInfo("libtiff", "LibTiff", "tiff-4.1.0", libtiff_build_cmds,
                    (ninja_std \o " -k 0 tiff"), "--skip libtiff", <<>>,
                    "tiff-4.1.0_patches", FALSE),
      BenchmarkInfo("zlib", "ZLib", "zlib-1.2.11", zlib_build_cmds,
                    (ninja_std \o " -k 0 zlib"), "--skip zlib",
                    <<(<<BenchmarkComponent(None, None, "build")>>)>>, None, FALSE),
      BenchmarkInfo("icecast", "Icecast", "icecast-2.4.4", icecast_build_cmds,
                    (make_std \o " -k"), None, <<>>, None, FALSE),
      BenchmarkInfo("thttpd", "Thttpd", "thttpd-2.29", thttpd_build_cmds,
                    (thttpd_make \o " -k"), None, <<>>,
                    "thttpd-2.29_patches", FALSE)>>

S_only_g_sol == <<"-", "o", "n", "l", "y", "-", "g", "-", "s", "o", "l">>
S_only_l_sol == <<"-", "o", "n", "l", "y", "-", "l", "-", "s", "o", "l">>
S_disable_rds == <<"-", "d", "i", "s", "a", "b", "l", "e", "-", "r", "d", "s">>
S_disable_fnedgs ==
    <<"-", "d", "i", "s", "a", "b", "l", "e", "-", "f", "n", "e", "d", "g", "s">>

WorkflowConfig(filename, friendly_name, variants, cron_timestamp, generate_stats) ==
    [filename |-> filename,
     friendly_name |-> friendly_name,
     variants |-> variants,
     cron_timestamp |-> cron_timestamp,
     generate_stats |-> generate_stats]

workflow_file_configs ==
    <<WorkflowConfig("main", "3C benchmark tests",
                     <<Variant(FALSE, <<>>, "", FALSE),
                       Variant(TRUE, <<>>, "", FALSE)>>,
                     "0 5 * * *", FALSE),
      WorkflowConfig("exhaustivestats", "Exhaustive testing and Performance Stats",
                     <<Variant(FALSE, <<>>, "", FALSE),
                       Variant(TRUE, <<>>, "", FALSE)>>,
                     None, TRUE),
      WorkflowConfig("exhaustiveleastgreatest",
                     "Exhaustive testing and Performance Stats (Least and Greatest)",
                     <<Variant(TRUE, <<S_only_g_sol>>, ", greatest solution", TRUE),
                       Variant(TRUE, <<S_only_l_sol>>, ", least solution", TRUE)>>,
                     None, TRUE),
      WorkflowConfig("exhaustiveccured",
                     "Exhaustive testing and Performance Stats (CCured)",
                     <<Variant(TRUE, <<S_disable_rds>>, ", CCured solution", TRUE),
                       Variant(TRUE, <<S_disable_fnedgs>>, ", FuncRevEdges solution",
                               TRUE)>>,
                     None, TRUE)>>

(***************************************************************************)
(* Steps.  A path is root/sv/parts, a relative one has root ".".  A shell  *)
(* body is the sequence of its commands; a pipeline carries its stages and *)
(* what follows its `||`.                                                  *)
(***************************************************************************)
stats_filenames ==
    <<"PerWildPtrStats.json", "TotalConstraintStats.json.aggregate.json",
      "TotalConstraintStats.json", "WildPtrStats.json">>

Path(root, sv, parts) == [root |-> root, sv |-> sv, parts |-> parts]
RelPath(parts) == Path(".", <<>>, parts)
NoPath == Path("", <<>>, <<>>)
SubPath(path, part) == [path EXCEPT !.parts = Append(@, part)]

Cmd(op, path, words) ==
    [op |-> op, path |-> path, words |-> words, flags |-> <<>>,
     stages |-> <<>>, or_else |-> <<>>]

Flag(flag, arg, val) == [flag |-> flag, arg |-> arg, val |-> val]

NoArtifact == [friendly |-> "", sv |-> <<>>]

\* Step.name is kept as the pieces that are concatenated, the empty ones left out.
NamePieces(pieces) == SelectSeq(pieces, LAMBDA x : x # "")

\* RunStep(name, run)
RunStep(name, comp, run) ==
    [type |-> "run", form |-> "step", name |-> NamePieces(name), comp |-> comp,
     run |-> run, action_name |-> "", artifact |-> NoArtifact, with_path |-> NoPath]

\* ActionStep(name, action_name, args)
ActionStep(name, comp, action_name, artifact, with_path) ==
    [type |-> "action", form |-> "step", name |-> NamePieces(name), comp |-> comp,
     run |-> <<>>, action_name |-> action_name, artifact |-> artifact,
     with_path |-> with_path]

\* Lines 637-639: the components, the implicit one when unset.
ComponentsOf(binfo) ==
    IF binfo.components = <<>>
    THEN <<BenchmarkComponent(binfo.friendly_name, None, None)>>
    ELSE binfo.components[1]

\* defer_failure with the comparison off by one.
DeferFailure_AtLeastOne(components) == Len(components) >= 1

\* Line 641
DeferFailure(components) == Len(components) > 1

\* subvariant_dir without the subvariant identifier.
SubvariantDir_Shared(subvariant_name) ==
    Path("${{env.benchmark_conv_dir}}", <<>>, <<>>)

\* Line 581
SubvariantDir(subvariant_name) ==
    Path("${{env.benchmark_conv_dir}}", subvariant_name, <<>>)

\* Line 612
BenchmarkDir(binfo, subvariant_name) ==
    SubPath(SubvariantDir(subvariant_name), binfo.dir_name)

\* Line 642
FailedComponentsFname(binfo, subvariant_name) ==
    SubPath(BenchmarkDir(binfo, subvariant_name), "failed-components-list.txt")

\* Lines 644-646
ComponentDir(binfo, subvariant_name, component) ==
    IF component.subdir # None
    THEN SubPath(BenchmarkDir(binfo, subvariant_name), component.subdir)
    ELSE BenchmarkDir(binfo, subvariant_name)

\* component_friendly_name taken from the benchmark alone.
ComponentFriendlyName_Benchmark(binfo, component) ==
    binfo.friendly_name

\* Lines 647-648
ComponentFriendlyName(binfo, component) ==
    IF component.friendly_name # None /\ component.friendly_name # ""
    THEN component.friendly_name
    ELSE binfo.friendly_name

\* The build step without `rm -rf {binfo.dir_name}`.
BuildStep_NoRemove(binfo, subvariant_name) ==
    RunStep(<<"Build ", binfo.friendly_name>>, 0,
        <<Cmd("mkdir -p", SubvariantDir(subvariant_name), <<>>),
          Cmd("cd", SubvariantDir(subvariant_name), <<>>),
          Cmd("tar -xvzf", NoPath,
              <<"${{env.benchmark_tar_dir}}", binfo.dir_name, ".tar.gz">>)>> \o
        (IF binfo.patch_dir # None /\ binfo.patch_dir # ""
         THEN <<Cmd("for-each-patch", NoPath,
                    <<"${{env.benchmark_tar_dir}}", binfo.patch_dir>>)>>
         ELSE <<>>) \o
        <<Cmd("cd", RelPath(<<binfo.dir_name>>), <<>>),
          Cmd("build_cmds", NoPath, <<ensure_trailing_newline(binfo.build_cmds)>>)>>)

\* Lines 612-635: the build step.
BuildStep(binfo, subvariant_name) ==
    RunStep(<<"Build ", binfo.friendly_name>>, 0,
        <<Cmd("mkdir -p", SubvariantDir(subvariant_name), <<>>),
          Cmd("cd", SubvariantDir(subvariant_name), <<>>),
          Cmd("rm -rf", RelPath(<<binfo.dir_name>>), <<>>),
          Cmd("tar -xvzf", NoPath,
              <<"${{env.benchmark_tar_dir}}", binfo.dir_name, ".tar.gz">>)>> \o
        (IF binfo.patch_dir # None /\ binfo.patch_dir # ""
         THEN <<Cmd("for-each-patch", NoPath,
                    <<"${{env.benchmark_tar_dir}}", binfo.patch_dir>>)>>
         ELSE <<>>) \o
        <<Cmd("cd", RelPath(<<binfo.dir_name>>), <<>>),
          Cmd("build_cmds", NoPath, <<ensure_trailing_newline(binfo.build_cmds)>>)>>)

\* Lines 650-659: convert_flags, one entry per line.
ConvertFlags(binfo, component, subvariant_convert_extra) ==
    (IF binfo.convert_extra # None
     THEN <<Flag(binfo.convert_extra, <<>>, "")>> ELSE <<>>) \o
    <<Flag("--prog_name", <<>>, "${{env.builddir}}/bin/3c")>> \o
    subvariant_convert_extra \o
    <<Flag("--project_path", <<>>, ".")>> \o
    (IF component.build_dir # None
     THEN <<Flag("--build_dir", <<>>, component.build_dir)>> ELSE <<>>)

\* Lines 661-667: the conversion step of one component.
ConvertStep(binfo, subvariant_name, subvariant_convert_extra, i, component) ==
    RunStep(<<"Convert ", ComponentFriendlyName(binfo, component)>>, i,
        <<Cmd("cd", ComponentDir(binfo, subvariant_name, component), <<>>),
          [Cmd("convert_project.py", NoPath, <<"${{env.port_tools}}">>)
              EXCEPT !.flags =
                  ConvertFlags(binfo, component, subvariant_convert_extra)]>>)

\* The stats steps of a workflow file, written in local mode too.
StatsSteps_AlwaysCI(binfo, subvariant_name, i, component, generate_stats, run_locally) ==
    LET cfn == ComponentFriendlyName(binfo, component)
        component_dir == ComponentDir(binfo, subvariant_name, component)
        perf_artifact_name == [friendly |-> cfn, sv |-> subvariant_name]
    IN  IF ~generate_stats THEN <<>>
        ELSE <<RunStep(<<"Copy 3c stats of ", cfn>>, i,
                   <<Cmd("cd", component_dir, <<>>),
                     Cmd("mkdir", RelPath(<<"3c_performance_stats/">>), <<>>),
                     Cmd("cp", RelPath(<<"3c_performance_stats/">>),
                         stats_filenames)>>),
               ActionStep(<<"Upload 3c stats of ", cfn>>, i,
                   "actions/upload-artifact@v2", perf_artifact_name,
                   SubPath(component_dir, "3c_performance_stats/"))>>

\* The stats steps with the local branch taken for the upload as well.
StatsSteps_UploadLocally(binfo, subvariant_name, i, component, generate_stats, run_locally) ==
    LET cfn == ComponentFriendlyName(binfo, component)
        component_dir == ComponentDir(binfo, subvariant_name, component)
        perf_artifact_name == [friendly |-> cfn, sv |-> subvariant_name]
    IN  IF ~generate_stats THEN <<>>
        ELSE <<RunStep(<<IF run_locally THEN "Save 3c stats of "
                         ELSE "Copy 3c stats of ", cfn>>, i,
                   <<Cmd("cd", component_dir, <<>>)>>),
               [RunStep(<<"Upload 3c stats of ", cfn>>, i,
                        <<Cmd("cd", component_dir, <<>>)>>)
                   EXCEPT !.artifact = perf_artifact_name]>>

\* Lines 669-713: the stats steps of one component.
StatsSteps(binfo, subvariant_name, i, component, generate_stats, run_locally) ==
    LET cfn == ComponentFriendlyName(binfo, component)
        component_dir == ComponentDir(binfo, subvariant_name, component)
        perf_artifact_name == [friendly |-> cfn, sv |-> subvariant_name]
        all_stats_dir == Path("${{env.benchmark_conv_dir}}", <<>>, <<"stats">>)
    IN  IF ~generate_stats THEN <<>>
        ELSE IF run_locally
        THEN <<[RunStep(<<"Save 3c stats of ", cfn>>, i,
                   <<Cmd("cd", component_dir, <<>>),
                     Cmd("mkdir -p", all_stats_dir, <<>>),
                     Cmd("rm -f zip", all_stats_dir, <<>>),
                     Cmd("zip", all_stats_dir, stats_filenames)>>)
                   EXCEPT !.artifact = perf_artifact_name]>>
        ELSE <<RunStep(<<"Copy 3c stats of ", cfn>>, i,
                   <<Cmd("cd", component_dir, <<>>),
                     Cmd("mkdir", RelPath(<<"3c_performance_stats/">>), <<>>),
                     Cmd("cp", RelPath(<<"3c_performance_stats/">>),
                         stats_filenames)>>),
               ActionStep(<<"Upload 3c stats of ", cfn>>, i,
                   "actions/upload-artifact@v2", perf_artifact_name,
                   SubPath(component_dir, "3c_performance_stats/"))>>

\* Lines 585-594: the filter a build of an all-types variant is piped through.
AtFilterStep(variant) ==
    IF variant.alltypes THEN " (filter bounds inference errors)" ELSE ""

AtFilterCode(variant) ==
    IF variant.alltypes
    THEN <<"${{env.actions_repo}}/filter-bounds-inference-errors.py">>
    ELSE <<>>

\* Lines 715-718: what follows the `||` of a deferred build.
DeferFailureCode(binfo, subvariant_name, component, defer_failure) ==
    IF defer_failure
    THEN <<Cmd("echo >>", FailedComponentsFname(binfo, subvariant_name),
               <<ComponentFriendlyName(binfo, component)>>)>>
    ELSE <<>>

\* Lines 715-732: the "build converted" step of one component.
BuildConvertedStep(binfo, variant, subvariant_name, i, component, defer_failure) ==
    RunStep(<<"Build converted ", ComponentFriendlyName(binfo, component),
              AtFilterStep(variant),
              IF defer_failure THEN " (defer failure)" ELSE "">>, i,
        <<Cmd("cd", ComponentDir(binfo, subvariant_name, component), <<>>),
          Cmd("flatten out.checked", NoPath, <<>>)>> \o
        (IF component.build_dir # None
         THEN <<Cmd("cd", RelPath(<<component.build_dir>>), <<>>)>> ELSE <<>>) \o
        <<[Cmd("pipeline", NoPath, <<>>)
              EXCEPT !.stages = <<rstrip(binfo.build_converted_cmd, "\n")>> \o
                                 AtFilterCode(variant),
                     !.or_else = DeferFailureCode(binfo, subvariant_name,
                                                  component, defer_failure)]>>)

\* Lines 734-743: the check for deferred failures.
CheckDeferredStep(binfo, subvariant_name) ==
    RunStep(<<"Check for deferred post-conversion build failures">>, 0,
        <<Cmd("if -e: echo, cat, exit 1",
              FailedComponentsFname(binfo, subvariant_name), <<>>)>>)

\* The loop with the stats steps appended after the build of the component.
ComponentSteps_StatsLast(binfo, variant, subvariant_name, subvariant_convert_extra, generate_stats, run_locally, components, i) ==
    LET OneComponent(k) ==
            <<ConvertStep(binfo, subvariant_name, subvariant_convert_extra, k,
                          components[k]),
              BuildConvertedStep(binfo, variant, subvariant_name, k, components[k],
                                 DeferFailure(components))>> \o
            StatsSteps(binfo, subvariant_name, k, components[k], generate_stats,
                       run_locally)
        Concat[k \in 1..(Len(components) + 1)] ==
            IF k > Len(components) THEN <<>> ELSE OneComponent(k) \o Concat[k + 1]
    IN  Concat[i]

\* Lines 643-732: the steps of the components, one loop iteration after another.
RECURSIVE ComponentSteps(_, _, _, _, _, _, _, _)
ComponentSteps(binfo, variant, subvariant_name, subvariant_convert_extra, generate_stats, run_locally, components, i) ==
    IF i > Len(components) THEN <<>>
    ELSE <<ConvertStep(binfo, subvariant_name, subvariant_convert_extra, i,
                       components[i])>> \o
         StatsSteps(binfo, subvariant_name, i, components[i], generate_stats,
                    run_locally) \o
         <<BuildConvertedStep(binfo, variant, subvariant_name, i, components[i],
                              DeferFailure(components))>> \o
         ComponentSteps(binfo, variant, subvariant_name, subvariant_convert_extra,
                        generate_stats, run_locally, components, i + 1)

\* Lines 633-743: the list `steps` of generate_benchmark_job.
JobSteps(binfo, expand_macros, variant, generate_stats, run_locally) ==
    LET subvariant_name ==
            SubvariantName(expand_macros, variant.alltypes, variant.extra_3c_args)
        subvariant_convert_extra ==
            SubvariantConvertExtra(expand_macros, variant.alltypes,
                                   variant.extra_3c_args)
        components == ComponentsOf(binfo)
    IN  <<BuildStep(binfo, subvariant_name)>> \o
        ComponentSteps(binfo, variant, subvariant_name, subvariant_convert_extra,
                       generate_stats, run_locally, components, 1) \o
        (IF DeferFailure(components)
         THEN <<CheckDeferredStep(binfo, subvariant_name)>> ELSE <<>>)

(***************************************************************************)
(* SpecName: the expander on arbitrary bounded inputs.                     *)
(***************************************************************************)
ArgChars == {"-", "_", "a"}

RECURSIVE SeqsUpTo(_, _)
SeqsUpTo(S, n) ==
    IF n = 0 THEN {<<>>}
    ELSE LET shorter == SeqsUpTo(S, n - 1)
         IN  shorter \cup {Append(s, x) : s \in shorter, x \in S}

ArgStrings == SeqsUpTo(ArgChars, MaxArgLen)
ExtraArgLists == SeqsUpTo(ArgStrings, MaxArgs)

\* The extra_3c_args lists of the variants of workflow_file_configs.
ConfiguredArgLists ==
    UNION {{workflow_file_configs[c].variants[v].extra_3c_args :
                v \in DOMAIN workflow_file_configs[c].variants} :
           c \in DOMAIN workflow_file_configs}

NameInputs ==
    [alltypes : BOOLEAN, expand_macros : BOOLEAN,
     extra_3c_args : ExtraArgLists \cup ConfiguredArgLists]

\* The rest of what the expansion and the conversion step read: the
\* friendly_name_suffix of the variant, the benchmark and one of its
\* components.  Without a suffix, convert_extra and build_dir, and with all
\* three.
ConvertTargets ==
    {[friendly_name_suffix |-> "",
      binfo |-> BenchmarkInfo("t1", "T1", "dir-t1", "bear make", "make -k", None,
                              <<>>, None, FALSE),
      component |-> BenchmarkComponent("T1", None, None)],
     [friendly_name_suffix |-> ", greatest solution",
      binfo |-> BenchmarkInfo("t2", "T2", "dir-t2", "bear make", "make -k",
                              "--skip t2", <<>>, None, FALSE),
      component |-> BenchmarkComponent(None, None, "build")]}

NoSubvariant ==
    [name |-> <<>>, convert_extra |-> <<>>, suffix |-> "", friendly |-> <<>>,
     component |-> BenchmarkComponent(None, None, None),
     convert |-> RunStep(<<>>, 0, <<>>)]

NoCall == [b |-> 0, e |-> 0, v |-> 0, before |-> 0]

nameVars == <<sv_in, sv_out>>

nameIdle ==
    /\ sv_in = [alltypes |-> FALSE, expand_macros |-> FALSE, extra_3c_args |-> <<>>]
    /\ sv_out = NoSubvariant

genIdle ==
    /\ args = [run_locally |-> FALSE]
    /\ exists = [bin_3c |-> TRUE]
    /\ benchmarks = <<>>
    /\ config = 0
    /\ loop = <<0, 0, 0>>
    /\ out = <<>>
    /\ files = <<>>
    /\ last_call = NoCall

genVars == <<args, exists, benchmarks, config, loop, out, files, last_call>>

runVars == <<job, sh, wf, par>>

runIdle ==
    /\ job = [steps |-> <<>>]
    /\ sh = [state |-> "idle"]
    /\ wf = [jobs |-> <<>>, status |-> <<>>]
    /\ par = [jobs |-> <<>>, sh |-> <<>>, fs |-> {}, touched |-> <<>>]

InitName ==
    /\ pc = "name_input"
    /\ sv_in \in NameInputs
    /\ sv_out = NoSubvariant
    /\ genIdle
    /\ runIdle

ComputeSubvariant ==
    /\ pc = "name_input"
    /\ pc' = "name_done"
    /\ \E target \in ConvertTargets :
           sv_out' = [name |-> SubvariantName(sv_in.expand_macros, sv_in.alltypes,
                                              sv_in.extra_3c_args),
                      convert_extra |-> SubvariantConvertExtra(sv_in.expand_macros,
                                            sv_in.alltypes, sv_in.extra_3c_args),
                      suffix |-> target.friendly_name_suffix,
                      friendly |-> SubvariantFriendly(sv_in.expand_macros,
                                       sv_in.alltypes, target.friendly_name_suffix),
                      component |-> target.component,
                      convert |->
                          ConvertStep(target.binfo,
                              SubvariantName(sv_in.expand_macros, sv_in.alltypes,
                                             sv_in.extra_3c_args),
                              SubvariantConvertExtra(sv_in.expand_macros,
                                  sv_in.alltypes, sv_in.extra_3c_args),
                              1, target.component)]
    /\ UNCHANGED <<sv_in, genVars, runVars>>

NextName == ComputeSubvariant

SpecName == InitName /\ [][NextName]_vars

(***************************************************************************)
(* C1: the subvariant identifier as a function of its inputs.              *)
(***************************************************************************)
HasPrefix(s, p) ==
    Len(s) >= Len(p) /\ SubSeq(s, 1, Len(p)) = p

DropPrefix(s, p) ==
    IF HasPrefix(s, p) THEN SubSeq(s, Len(p) + 1, Len(s)) ELSE s

\* Reading an identifier back: the macro-expand flag, the all-types flag, and
\* the extra arguments as a list of "-word".
NameExpandMacros(name) == ~HasPrefix(name, S_no)

NameAfterExpand(name) == DropPrefix(DropPrefix(name, S_no), S_expand_macros)

NameAlltypes(name) == ~HasPrefix(NameAfterExpand(name), S_no)

NameAfterAlltypes(name) ==
    DropPrefix(DropPrefix(NameAfterExpand(name), S_no), S_alltypes)

RECURSIVE WordPrefix(_)
WordPrefix(s) ==
    IF s = <<>> \/ Head(s) = "_" THEN <<>> ELSE <<Head(s)>> \o WordPrefix(Tail(s))

RECURSIVE SplitEargs(_)
SplitEargs(s) ==
    IF s = <<>> \/ Head(s) # "_" THEN <<>>
    ELSE LET w == WordPrefix(Tail(s))
         IN  <<(<<"-">> \o w)>> \o SplitEargs(SubSeq(s, Len(w) + 2, Len(s)))

\* An extra argument written as one dash and a word without dash or underscore.
PlainArg(a) ==
    /\ a # <<>>
    /\ a[1] = "-"
    /\ \A i \in 2..Len(a) : a[i] \notin {"-", "_"}

PlainArgs(eargs) == \A i \in 1..Len(eargs) : PlainArg(eargs[i])

\* C1 as stated: any two inputs that differ in alltypes, in the macro-expand
\* flag or in the ordered extra_3c_args list have different identifiers.
C1_Original ==
    pc = "name_done" =>
        \A other \in NameInputs :
            other # sv_in =>
                SubvariantName(other.expand_macros, other.alltypes,
                               other.extra_3c_args) # sv_out.name

\* C1 (amended): the identifier determines the macro-expand flag and the
\* all-types flag whatever the extra arguments are, and it determines the extra
\* argument list when every argument is one dash followed by a word with no
\* dash and no underscore; so two inputs that differ in a flag, or in two such
\* lists, never share an identifier.
C1_Injective ==
    pc = "name_done" =>
        /\ NameExpandMacros(sv_out.name) = sv_in.expand_macros
        /\ NameAlltypes(sv_out.name) = sv_in.alltypes
        /\ PlainArgs(sv_in.extra_3c_args) =>
               SplitEargs(NameAfterAlltypes(sv_out.name)) = sv_in.extra_3c_args

C1_Witness ==
    /\ pc = "name_done"
    /\ sv_in.alltypes /\ ~sv_in.expand_macros
    /\ Len(sv_in.extra_3c_args) = 2
    /\ PlainArgs(sv_in.extra_3c_args)
    /\ sv_in.extra_3c_args[1] # sv_in.extra_3c_args[2]

(***************************************************************************)
(* C11: the identifier and the label, written out position by position.    *)
(***************************************************************************)
\* The number of leading dashes of an argument.
LeadingDashes(a) ==
    CHOOSE k \in 0..Len(a) :
        /\ \A i \in 1..k : a[i] = "-"
        /\ k = Len(a) \/ a[k + 1] # "-"

\* The argument without its leading dashes, every other dash an underscore.
Normalised(a) ==
    [i \in 1..(Len(a) - LeadingDashes(a)) |->
        IF a[i + LeadingDashes(a)] = "-" THEN "_" ELSE a[i + LeadingDashes(a)]]

ExpectedPrefix(expand_macros, alltypes) ==
    CASE expand_macros /\ alltypes ->
            <<"e", "x", "p", "a", "n", "d", "_", "m", "a", "c", "r", "o", "s", "_",
              "a", "l", "l", "t", "y", "p", "e", "s">>
      [] expand_macros /\ ~alltypes ->
            <<"e", "x", "p", "a", "n", "d", "_", "m", "a", "c", "r", "o", "s", "_",
              "n", "o", "_", "a", "l", "l", "t", "y", "p", "e", "s">>
      [] ~expand_macros /\ alltypes ->
            <<"n", "o", "_", "e", "x", "p", "a", "n", "d", "_", "m", "a", "c", "r",
              "o", "s", "_", "a", "l", "l", "t", "y", "p", "e", "s">>
      [] OTHER ->
            <<"n", "o", "_", "e", "x", "p", "a", "n", "d", "_", "m", "a", "c", "r",
              "o", "s", "_", "n", "o", "_", "a", "l", "l", "t", "y", "p", "e", "s">>

\* Where the part of the i-th extra argument starts in the identifier.
PartStart(prefix, eargs, i) ==
    LET start[k \in 1..(Len(eargs) + 1)] ==
            IF k = 1 THEN Len(prefix) + 1
            ELSE start[k - 1] + 1 + Len(Normalised(eargs[k - 1]))
    IN  start[i]

NameAsDescribed(name, expand_macros, alltypes, eargs) ==
    LET prefix == ExpectedPrefix(expand_macros, alltypes)
    IN  /\ HasPrefix(name, prefix)
        /\ Len(name) = PartStart(prefix, eargs, Len(eargs) + 1) - 1
        /\ \A i \in 1..Len(eargs) :
               LET from == PartStart(prefix, eargs, i)
               IN  /\ name[from] = "_"
                   /\ SubSeq(name, from + 1, from + Len(Normalised(eargs[i])))
                        = Normalised(eargs[i])

LabelAsDescribed(label, expand_macros, alltypes, suffix) ==
    LET flags == CASE expand_macros /\ alltypes -> <<"macro-expanded, ", "-alltypes">>
                   [] expand_macros /\ ~alltypes ->
                        <<"macro-expanded, ", "no ", "-alltypes">>
                   [] ~expand_macros /\ alltypes ->
                        <<"not ", "macro-expanded, ", "-alltypes">>
                   [] OTHER -> <<"not ", "macro-expanded, ", "no ", "-alltypes">>
    IN  label = IF suffix = "" THEN flags ELSE Append(flags, suffix)

GreatestSolutionExample ==
    /\ sv_in = [alltypes |-> TRUE, expand_macros |-> FALSE,
                extra_3c_args |-> <<S_only_g_sol>>]
    /\ sv_out.suffix = ", greatest solution"

\* C11: the identifier is [no_]expand_macros_[no_]alltypes followed, for each
\* extra argument in order, by an underscore and the argument without its
\* leading dashes and with its other dashes replaced by underscores; the label
\* is "[not ]macro-expanded, [no ]-alltypes" followed by the friendly-name
\* suffix; the greatest-solution variant without macro expansion gives
\* no_expand_macros_alltypes_only_g_sol and
\* "not macro-expanded, -alltypes, greatest solution".
C11_IdentifierAndLabel ==
    pc = "name_done" =>
        /\ NameAsDescribed(sv_out.name, sv_in.expand_macros, sv_in.alltypes,
                           sv_in.extra_3c_args)
        /\ LabelAsDescribed(sv_out.friendly, sv_in.expand_macros, sv_in.alltypes,
                            sv_out.suffix)
        /\ GreatestSolutionExample =>
               /\ sv_out.name =
                    <<"n", "o", "_", "e", "x", "p", "a", "n", "d", "_", "m", "a",
                      "c", "r", "o", "s", "_", "a", "l", "l", "t", "y", "p", "e",
                      "s", "_", "o", "n", "l", "y", "_", "g", "_", "s", "o", "l">>
               /\ sv_out.friendly =
                    <<"not ", "macro-expanded, ", "-alltypes", ", greatest solution">>

C11_Witness ==
    /\ pc = "name_done"
    /\ GreatestSolutionExample

(***************************************************************************)
(* Spec: the generator.                                                    *)
(***************************************************************************)
Range(f) == {f[i] : i \in DOMAIN f}

Item(item, key, title, needs, steps) ==
    [item |-> item, key |-> key, title |-> title, needs |-> needs, steps |-> steps]

\* A job key that leaves the subvariant out.
JobKey_NoSubvariant(prefix, bench, sv) ==
    [prefix |-> prefix, bench |-> bench, sv |-> <<>>]

\* Lines 600-601 and HEADER: the key of a job.
JobKey(prefix, bench, sv) == [prefix |-> prefix, bench |-> bench, sv |-> sv]
NoKey == JobKey("", "", <<>>)
Title(friendly, label) == [friendly |-> friendly, label |-> label]

\* Lines 372-486: HEADER, as the preamble and its three jobs.
HEADER(workflow) ==
    <<Item("preamble", NoKey, Title(workflow.friendly_name, <<>>),
           IF workflow.cron_timestamp = None
           THEN <<"workflow_dispatch">>
           ELSE <<"schedule", "workflow_dispatch">>, <<>>),
      Item("job", JobKey("clean", "", <<>>), Title("Clean", <<>>), <<>>, <<>>),
      Item("job", JobKey("build_3c", "", <<>>), Title("Build 3c and clang", <<>>),
           <<JobKey("clean", "", <<>>)>>, <<>>),
      Item("job", JobKey("test_3c", "", <<>>), Title("3C regression tests", <<>>),
           <<JobKey("build_3c", "", <<>>)>>, <<>>)>>

\* Lines 932-938: the head of the local script.
LocalScriptHead(workflow) ==
    <<Item("shebang", NoKey, Title(workflow.filename, <<>>), <<>>, <<>>)>>

\* Step.__str__ and RunStep/ActionStep.format_body
Str(step) == [step EXCEPT !.form = "ci"]

\* RunStep.format_local; ActionStep.format_local raises.
FormatLocal(step) ==
    IF step.type = "action" THEN [step EXCEPT !.form = "NotImplementedError"]
    ELSE [step EXCEPT !.form = "local"]

\* Lines 745-750: the steps as they are written.
Rendered(steps, run_locally) ==
    [i \in 1..Len(steps) |->
        IF run_locally THEN FormatLocal(steps[i]) ELSE Str(steps[i])]

\* Lines 557-560: the subvariant filter of generate_benchmark_job.
PassesSubvariantFilter(expand_macros, variant, subvariants) ==
    ~(subvariants # <<>> /\
      SubvariantBaseName(expand_macros, variant.alltypes) \notin Range(subvariants))

\* Lines 550-560: whether generate_benchmark_job goes on to write the job.
Accepts(binfo, expand_macros, variant, subvariants) ==
    /\ is_allowed(binfo, variant)
    /\ PassesSubvariantFilter(expand_macros, variant, subvariants)

\* The job header without its `needs`.
JobHeader_NoNeeds(binfo, expand_macros, variant, run_locally) ==
    LET subvariant_name ==
            SubvariantName(expand_macros, variant.alltypes, variant.extra_3c_args)
        title == Title(binfo.friendly_name,
                       SubvariantFriendly(expand_macros, variant.alltypes,
                                          variant.friendly_name_suffix))
    IN  IF run_locally
        THEN Item("comment", NoKey, title, <<>>, <<>>)
        ELSE Item("job", JobKey("test_", binfo.name, subvariant_name), title,
                  <<>>, <<>>)

\* Lines 596-610: the job header (CI) or comment header (local).
JobHeader(binfo, expand_macros, variant, run_locally) ==
    LET subvariant_name ==
            SubvariantName(expand_macros, variant.alltypes, variant.extra_3c_args)
        title == Title(binfo.friendly_name,
                       SubvariantFriendly(expand_macros, variant.alltypes,
                                          variant.friendly_name_suffix))
    IN  IF run_locally
        THEN Item("comment", NoKey, title, <<>>, <<>>)
        ELSE Item("job", JobKey("test_", binfo.name, subvariant_name), title,
                  <<JobKey("build_3c", "", <<>>)>>, <<>>)

\* generate_benchmark_job with the header written before the checks.
JobOutput_HeaderFirst(binfo, expand_macros, variant, generate_stats, run_locally, subvariants) ==
    IF ~Accepts(binfo, expand_macros, variant, subvariants)
    THEN <<JobHeader(binfo, expand_macros, variant, run_locally)>>
    ELSE <<JobHeader(binfo, expand_macros, variant, run_locally),
           Item("steps", NoKey, Title("", <<>>), <<>>,
                Rendered(JobSteps(binfo, expand_macros, variant, generate_stats,
                                  run_locally), run_locally))>>

\* Lines 547-750: what one call of generate_benchmark_job writes to `out`.
JobOutput(binfo, expand_macros, variant, generate_stats, run_locally, subvariants) ==
    IF ~Accepts(binfo, expand_macros, variant, subvariants) THEN <<>>
    ELSE <<JobHeader(binfo, expand_macros, variant, run_locally),
           Item("steps", NoKey, Title("", <<>>), <<>>,
                Rendered(JobSteps(binfo, expand_macros, variant, generate_stats,
                                  run_locally), run_locally))>>

\* Whether the rendering of the steps raises (ActionStep.format_local).
Raises(items) ==
    \E i \in 1..Len(items) : \E j \in 1..Len(items[i].steps) :
        items[i].steps[j].form = "NotImplementedError"

(* The inputs of a run. *)
ConfigNames == {workflow_file_configs[i].filename : i \in DOMAIN workflow_file_configs}

BenchmarkFilters == {<<>>, <<"s2">>, <<"ptrdist", "s1">>}

SubvariantFilters ==
    {<<>>,
     <<SubvariantBaseName(FALSE, TRUE)>>,
     <<SubvariantName(FALSE, TRUE, <<S_only_g_sol>>)>>,
     <<SubvariantBaseName(FALSE, FALSE), SubvariantBaseName(TRUE, TRUE)>>}

SynthComponent(i) ==
    IF i = 1 THEN BenchmarkComponent(None, None, "build")
    ELSE BenchmarkComponent("c" \o ToString(i), "c" \o ToString(i), None)

SynthBenchmark(name, n, disallow) ==
    BenchmarkInfo(name, "F-" \o name, "dir-" \o name,
                  "bear " \o make_checkedc \o " " \o name \o "\n",
                  make_checkedc \o " -k " \o name,
                  IF disallow THEN None ELSE "--skip " \o name,
                  IF n < 0 THEN <<>> ELSE <<[i \in 1..n |-> SynthComponent(i)]>>,
                  IF disallow THEN "patches-" \o name ELSE None,
                  disallow)

BenchmarkTables ==
    {ConfiguredBenchmarks} \cup
    {<<SynthBenchmark("s1", n, TRUE), SynthBenchmark("s2", m, FALSE)>> :
        n \in -1..MaxComponents, m \in -1..MaxComponents}

OutputFile == "--output"
FileNames == ConfigNames \cup {OutputFile}
OldContent == <<Item("old", NoKey, Title("", <<>>), <<>>, <<>>)>>
Absent == [exists |-> FALSE, content |-> <<>>]
Present(content) == [exists |-> TRUE, content |-> content]

LocalArgs ==
    [run_locally : {TRUE}, benchmarks : BenchmarkFilters,
     subvariants : SubvariantFilters, workflow_config : ConfigNames \cup {"nosuch"},
     use_built_extra_tools : BOOLEAN]

\* parser.set_defaults (lines 822-828): the arguments without the subcommand.
DefaultArgs ==
    [run_locally |-> FALSE, benchmarks |-> <<>>, subvariants |-> <<>>,
     workflow_config |-> None, use_built_extra_tools |-> FALSE]

Init ==
    /\ pc = "main"
    /\ args \in LocalArgs \cup {DefaultArgs}
    /\ exists \in [bin_3c : BOOLEAN, port_tools : BOOLEAN, benchmarks_dir : BOOLEAN,
                   out_fname : BOOLEAN]
    /\ args.run_locally \/ exists = [bin_3c |-> TRUE, port_tools |-> TRUE,
                                     benchmarks_dir |-> TRUE, out_fname |-> FALSE]
    /\ benchmarks \in BenchmarkTables
    /\ config = 0
    /\ loop = <<0, 0, 0>>
    /\ out = <<>>
    /\ files = [f \in FileNames |->
                   IF f = OutputFile /\ ~exists.out_fname
                   THEN Absent ELSE Present(OldContent)]
    /\ last_call = NoCall
    /\ nameIdle
    /\ runIdle


\* fatal_error (lines 965-966)
fatal_error ==
    /\ pc' = "fatal"
    /\ UNCHANGED <<args, exists, benchmarks, config, loop, out, files, last_call,
                   nameVars, runVars>>

Goto(next) ==
    /\ pc' = next
    /\ UNCHANGED <<args, exists, benchmarks, config, loop, out, files, last_call,
                   nameVars, runVars>>

\* Lines 974-976
CheckBuildDir ==
    /\ pc = "main" /\ args.run_locally
    /\ IF ~exists.bin_3c THEN fatal_error ELSE Goto("check_port_tools")

\* Lines 977-980
CheckPortTools ==
    /\ pc = "check_port_tools"
    /\ IF ~exists.port_tools THEN fatal_error ELSE Goto("check_benchmarks_dir")

\* The check of the benchmarks directory left out.
CheckBenchmarksDir_NoCheck ==
    /\ pc = "check_benchmarks_dir"
    /\ Goto("lookup_config")

\* Lines 981-983
CheckBenchmarksDir ==
    /\ pc = "check_benchmarks_dir"
    /\ IF ~exists.benchmarks_dir THEN fatal_error ELSE Goto("lookup_config")

\* matching_configs falling back to the first configuration.
MatchingConfigs_FallBack(name) ==
    LET m == SelectSeq([i \in DOMAIN workflow_file_configs |-> i],
                       LAMBDA i : workflow_file_configs[i].filename = name)
    IN  IF m = <<>> THEN <<1>> ELSE m

\* Lines 985-987
MatchingConfigs(name) ==
    SelectSeq([i \in DOMAIN workflow_file_configs |-> i],
              LAMBDA i : workflow_file_configs[i].filename = name)

\* Lines 985-992, and generate_local_script up to line 938.
LookupConfig ==
    /\ pc = "lookup_config"
    /\ LET matching_configs == MatchingConfigs(args.workflow_config)
       IN  IF Len(matching_configs) = 0 THEN fatal_error
           ELSE /\ config' = matching_configs[1]
                /\ out' = LocalScriptHead(workflow_file_configs[matching_configs[1]])
                /\ loop' = <<1, 1, 1>>
                /\ pc' = "jobs"
                /\ UNCHANGED <<args, exists, benchmarks, files, last_call, nameVars, runVars>>

\* Lines 994-995 and generate_github_workflow up to line 920.
StartWorkflow ==
    /\ pc \in {"main", "next_workflow"} /\ ~args.run_locally
    /\ config < Len(workflow_file_configs)
    /\ config' = config + 1
    /\ out' = HEADER(workflow_file_configs[config + 1])
    /\ files' = [files EXCEPT ![workflow_file_configs[config + 1].filename] =
                                  Present(<<>>)]
    /\ loop' = <<1, 1, 1>>
    /\ pc' = "jobs"
    /\ last_call' = NoCall
    /\ UNCHANGED <<args, exists, benchmarks, nameVars, runVars>>

\* The loops with the macro-expand loop innermost.
NextLoop_ExpandInner(l, variants) ==
    IF l[2] < 2 THEN <<l[1], l[2] + 1, l[3]>>
    ELSE IF l[3] < Len(variants) THEN <<l[1], 1, l[3] + 1>>
    ELSE <<l[1] + 1, 1, 1>>

\* The loops of generate_benchmark_jobs (lines 810-816): the next indices.
NextLoop(l, variants) ==
    IF l[3] < Len(variants) THEN <<l[1], l[2], l[3] + 1>>
    ELSE IF l[2] < 2 THEN <<l[1], l[2] + 1, 1>>
    ELSE <<l[1] + 1, 1, 1>>

\* Line 811: the benchmark filter.
BenchmarkSelected(binfo, selected) ==
    ~(selected # <<>> /\ binfo.name \notin Range(selected))

\* Lines 811-812: a benchmark that is not selected.
SkipBenchmark ==
    /\ pc = "jobs"
    /\ loop[1] <= Len(benchmarks)
    /\ ~BenchmarkSelected(benchmarks[loop[1]], args.benchmarks)
    /\ loop' = <<loop[1] + 1, 1, 1>>
    /\ UNCHANGED <<pc, args, exists, benchmarks, config, out, files, last_call,
                   nameVars, runVars>>

\* Lines 813-816 and 547-750: one call of generate_benchmark_job.
GenerateBenchmarkJob ==
    /\ pc = "jobs"
    /\ loop[1] <= Len(benchmarks)
    /\ BenchmarkSelected(benchmarks[loop[1]], args.benchmarks)
    /\ LET workflow == workflow_file_configs[config]
           written == JobOutput(benchmarks[loop[1]], loop[2] = 2,
                                workflow.variants[loop[3]],
                                workflow.generate_stats, args.run_locally,
                                args.subvariants)
       IN  /\ out' = out \o (IF Raises(written) THEN <<written[1]>> ELSE written)
           /\ pc' = IF Raises(written) THEN "exception" ELSE pc
           /\ loop' = NextLoop(loop, workflow.variants)
    /\ last_call' = [b |-> loop[1], e |-> loop[2], v |-> loop[3],
                     before |-> Len(out)]
    /\ UNCHANGED <<args, exists, benchmarks, config, files, nameVars, runVars>>

\* env_replacements without its last key.
env_replacements_NoClangRename ==
    <<[k |-> "actions_repo", v |-> "dirname(__file__)"],
      [k |-> "benchmark_tar_dir", v |-> "local_checkedc_benchmarks_dir"],
      [k |-> "benchmark_conv_dir", v |-> "abspath(work_dir)"],
      [k |-> "builddir", v |-> "local_3c_build_dir"],
      [k |-> "port_tools", v |-> "local_port_tools"]>>

\* Lines 942-955: env_replacements, in the order of the dict.
env_replacements ==
    <<[k |-> "actions_repo", v |-> "dirname(__file__)"],
      [k |-> "benchmark_tar_dir", v |-> "local_checkedc_benchmarks_dir"],
      [k |-> "benchmark_conv_dir", v |-> "abspath(work_dir)"],
      [k |-> "builddir", v |-> "local_3c_build_dir"],
      [k |-> "port_tools", v |-> "local_port_tools"],
      [k |-> "clang_rename",
       v |-> IF args.use_built_extra_tools
             THEN "local_3c_build_dir/bin/clang-rename" ELSE "clang-rename"]>>

\* Lines 956-957: the loop of the replacements, on one text of the script.
RECURSIVE ReplaceFrom(_, _)
ReplaceFrom(text, i) ==
    IF i > Len(env_replacements) THEN text
    ELSE ReplaceFrom(str_replace(text, "${{env." \o env_replacements[i].k \o "}}",
                                 env_replacements[i].v), i + 1)

EnvReplace(text) == ReplaceFrom(text, 1)

ReplaceInCmd(c) ==
    [c EXCEPT !.path.root = EnvReplace(@),
              !.words = [i \in DOMAIN @ |-> EnvReplace(@[i])],
              !.flags = [i \in DOMAIN @ |-> [@[i] EXCEPT !.val = EnvReplace(@)]],
              !.stages = [i \in DOMAIN @ |-> EnvReplace(@[i])],
              !.or_else = [i \in DOMAIN @ |->
                              [@[i] EXCEPT !.path.root = EnvReplace(@)]]]

\* Lines 956-957: the replacements applied to the whole script.
ReplaceEnv(script) ==
    [i \in DOMAIN script |->
        [script[i] EXCEPT !.steps = [j \in DOMAIN @ |->
            [@[j] EXCEPT !.run = [k \in DOMAIN @ |-> ReplaceInCmd(@[k])],
                         !.with_path.root = EnvReplace(@)]]]]

\* Lines 940-960: the end of generate_local_script.
WriteLocalScript ==
    /\ pc = "jobs" /\ args.run_locally
    /\ loop[1] > Len(benchmarks)
    /\ files' = [files EXCEPT ![OutputFile] = Present(ReplaceEnv(out))]
    /\ pc' = "done"
    /\ UNCHANGED <<args, exists, benchmarks, config, loop, out, last_call, nameVars, runVars>>

\* Line 908: the end of the `with` block of generate_github_workflow.
CloseWorkflow ==
    /\ pc = "jobs" /\ ~args.run_locally
    /\ loop[1] > Len(benchmarks)
    /\ files' = [files EXCEPT ![workflow_file_configs[config].filename] =
                                  Present(out)]
    /\ pc' = IF config < Len(workflow_file_configs) THEN "next_workflow" ELSE "done"
    /\ UNCHANGED <<args, exists, benchmarks, config, loop, out, last_call, nameVars, runVars>>

Next ==
    \/ CheckBuildDir
    \/ CheckPortTools
    \/ CheckBenchmarksDir
    \/ LookupConfig
    \/ StartWorkflow
    \/ SkipBenchmark
    \/ GenerateBenchmarkJob
    \/ WriteLocalScript
    \/ CloseWorkflow

Spec == Init /\ [][Next]_vars

(***************************************************************************)
(* SpecRun: the steps of one generated job, run one after the other.  In   *)
(* a workflow file every run step has a shell of its own that starts in    *)
(* the workspace and stops at the first failing command (`bash -e`, the    *)
(* shell of a step that names none), and a failing step ends the job.  In  *)
(* a local script the steps are consecutive lines of one `#!/bin/bash`     *)
(* script: no errexit, the working directory carries over, and only `exit` *)
(* ends the run.  The pipefail option is off in both.  Every command ends  *)
(* with an exit status the model does not decide.                          *)
(***************************************************************************)
ExitCodes == {0, 1}

Workspace == Path("${{github.workspace}}", <<>>, <<>>)

\* Lines 930-939: the local script sets no shell option; a workflow step
\* (lines 511-512) names no shell.
Errexit(run_locally) == ~run_locally

\* A relative path, seen from the working directory.
Resolve(cwd, path) ==
    IF path.root = "." THEN [cwd EXCEPT !.parts = @ \o path.parts] ELSE path

\* path lies in the tree of dir.
Under(path, dir) ==
    /\ path.root = dir.root /\ path.sv = dir.sv
    /\ Len(dir.parts) <= Len(path.parts)
    /\ SubSeq(path.parts, 1, Len(dir.parts)) = dir.parts

\* `echo line >>path`
AppendLine(fs, path, line) ==
    IF \E f \in fs : f.path = path
    THEN {IF f.path = path THEN [f EXCEPT !.lines = Append(@, line)] ELSE f : f \in fs}
    ELSE fs \cup {[path |-> path, lines |-> <<line>>]}

\* `rm -rf dir`
RemoveTree(fs, dir) == {f \in fs : ~Under(f.path, dir)}

\* The pipeline status with the pipefail option on.
PipelineStatus_Pipefail(rcs) ==
    IF \E i \in 1..Len(rcs) : rcs[i] # 0 THEN 1 ELSE 0

\* Lines 587-594: the status of `build 2>&1 | filter`, the pipefail option off.
PipelineStatus(rcs) == rcs[Len(rcs)]

NoFailure == [step |-> 0, op |-> ""]

Fail(st, cmd) ==
    [st EXCEPT !.state = "failed", !.failed_at = [step |-> st.ip, op |-> cmd.op]]

\* A command ended nonzero.
Nonzero(st, cmd) == IF Errexit(job.run_locally) THEN Fail(st, cmd) ELSE st

\* Lines 725-732: the last line of a "build converted" step,
\* `{build_converted_cmd}{at_filter_code}{defer_failure_code}`.
RunPipeline(st, step, cmd, stage_rcs) ==
    LET rcs == SubSeq(stage_rcs, 1, Len(cmd.stages))
        entry == [step |-> st.ip,
                  name |-> step.name[2],
                  build_rc |-> rcs[1],
                  has_filter |-> Len(rcs) > 1,
                  filter_rc |-> rcs[Len(rcs)],
                  deferred |-> cmd.or_else # <<>>,
                  appended |-> PipelineStatus(rcs) # 0 /\ cmd.or_else # <<>>]
        logged == [st EXCEPT !.log = Append(@, entry)]
    IN  IF PipelineStatus(rcs) = 0 THEN logged
        ELSE IF cmd.or_else # <<>>
        THEN [logged EXCEPT !.fs = AppendLine(@, cmd.or_else[1].path,
                                              cmd.or_else[1].words[1])]
        ELSE Nonzero(logged, cmd)

\* Lines 738-742: `[ -e file ]`, then a heading, `cat file` and `exit 1`,
\* which ends the shell, errexit or not.
RunCheck(st, cmd) ==
    LET there == {f \in st.fs : f.path = cmd.path}
        lines == IF there = {} THEN <<>> ELSE (CHOOSE f \in there : TRUE).lines
        seen == [ran |-> TRUE, existed |-> there # {}, lines |-> lines,
                 failed |-> there # {},
                 printed |-> IF there # {}
                             THEN <<"Failed components (see previous post-conversion build steps):">>
                                  \o lines
                             ELSE <<>>]
    IN  IF there # {} THEN [Fail(st, cmd) EXCEPT !.check = seen]
        ELSE [st EXCEPT !.check = seen]

\* One command of a run body, ended with status rc.
RunCmd(st, step, cmd, rc, stage_rcs) ==
    CASE cmd.op = "pipeline" -> RunPipeline(st, step, cmd, stage_rcs)
      [] cmd.op = "if -e: echo, cat, exit 1" -> RunCheck(st, cmd)
      [] cmd.op = "flatten out.checked" ->
            \* Line 727: an `if` whose body is an && list never ends the shell.
            st
      [] OTHER ->
            IF rc # 0 THEN Nonzero(st, cmd)
            ELSE CASE cmd.op = "cd" -> [st EXCEPT !.cwd = Resolve(@, cmd.path)]
                   [] cmd.op = "rm -rf" ->
                        [st EXCEPT !.fs = RemoveTree(@, Resolve(st.cwd, cmd.path))]
                   [] OTHER -> st

RECURSIVE RunBody(_, _, _, _, _)
RunBody(st, step, rcs, stage_rcs, k) ==
    IF k > Len(step.run) \/ st.state # "running" THEN st
    ELSE RunBody(RunCmd(st, step, step.run[k], rcs[k], stage_rcs), step, rcs,
                 stage_rcs, k + 1)

\* The job goes on with its next step, or ends.
NextStep(st) ==
    [st EXCEPT !.ip = st.ip + 1,
               !.state = IF st.ip = Len(job.steps) THEN "succeeded" ELSE "running"]

NoCheck ==
    [ran |-> FALSE, existed |-> FALSE, lines |-> <<>>, failed |-> FALSE,
     printed |-> <<>>]

\* The failure list found when the job starts: none, an empty one, or the
\* one an earlier run left.
StaleLists(binfo) == {<<>>, <<(<<>>)>>, <<(<<binfo.friendly_name>>)>>}

RunBenchmarks ==
    {SynthBenchmark("s1", n, d) : n \in -1..MaxComponents, d \in BOOLEAN}

RunVariants ==
    Range(workflow_file_configs[1].variants) \cup
    {workflow_file_configs[3].variants[1]}

InitRun ==
    /\ pc = "shell"
    /\ \E binfo \in RunBenchmarks, variant \in RunVariants,
          expand_macros \in BOOLEAN, generate_stats \in BOOLEAN,
          run_locally \in BOOLEAN :
           /\ is_allowed(binfo, variant)
           /\ job = [binfo |-> binfo, variant |-> variant,
                     expand_macros |-> expand_macros,
                     generate_stats |-> generate_stats,
                     run_locally |-> run_locally,
                     steps |-> JobSteps(binfo, expand_macros, variant,
                                        generate_stats, run_locally)]
           /\ \E stale \in StaleLists(binfo) :
               sh = [state |-> "running", ip |-> 1, cwd |-> Workspace,
                    fs |-> {[path |-> FailedComponentsFname(binfo,
                                            SubvariantName(expand_macros,
                                                variant.alltypes,
                                                variant.extra_3c_args)),
                             lines |-> stale[i]] : i \in DOMAIN stale},
                    failed_at |-> NoFailure, log |-> <<>>, check |-> NoCheck]
    /\ wf = [jobs |-> <<>>, status |-> <<>>]
    /\ par = [jobs |-> <<>>, sh |-> <<>>, fs |-> {}, touched |-> <<>>]
    /\ genIdle
    /\ nameIdle

\* A run step: RunStep.format_body / format_local, run by the shell.
ExecRunStep ==
    /\ pc = "shell" /\ sh.state = "running"
    /\ job.steps[sh.ip].type = "run"
    /\ \E rcs \in [1..Len(job.steps[sh.ip].run) -> ExitCodes],
          stage_rcs \in [1..2 -> ExitCodes] :
           LET st == RunBody(IF job.run_locally THEN sh
                             ELSE [sh EXCEPT !.cwd = Workspace],
                             job.steps[sh.ip], rcs, stage_rcs, 1)
           IN  sh' = IF st.state = "failed" THEN st ELSE NextStep(st)
    /\ UNCHANGED <<pc, job, wf, par, genVars, nameVars>>

\* An action step: ActionStep.format_body, run by the CI engine.
ExecActionStep ==
    /\ pc = "shell" /\ sh.state = "running"
    /\ job.steps[sh.ip].type = "action"
    /\ \E rc \in ExitCodes :
           sh' = IF rc # 0
                 THEN [sh EXCEPT !.state = "failed",
                                 !.failed_at = [step |-> sh.ip,
                                                op |-> job.steps[sh.ip].action_name]]
                 ELSE NextStep(sh)
    /\ UNCHANGED <<pc, job, wf, par, genVars, nameVars>>

NextRun == ExecRunStep \/ ExecActionStep

SpecRun == InitRun /\ [][NextRun]_vars

(***************************************************************************)
(* SpecEngine: the generator in its default mode writes the workflow       *)
(* files; one of them is dispatched, and the CI engine starts each of its  *)
(* jobs once the jobs it `needs` have completed.  Jobs run concurrently;   *)
(* a job ends completed or failed, and a job that needs a failed one never *)
(* starts.                                                                 *)
(***************************************************************************)
\* Tables of one benchmark: every workflow has four benchmark jobs at most.
EngineTables ==
    {<<SynthBenchmark("s1", 1, TRUE)>>, <<SynthBenchmark("s2", 2, FALSE)>>,
     <<ConfiguredBenchmarks[1]>>}

InitEngine ==
    /\ pc = "main"
    /\ args = DefaultArgs
    /\ exists = [bin_3c |-> TRUE, port_tools |-> TRUE, benchmarks_dir |-> TRUE,
                 out_fname |-> FALSE]
    /\ benchmarks \in EngineTables
    /\ config = 0
    /\ loop = <<0, 0, 0>>
    /\ out = <<>>
    /\ files = [f \in FileNames |->
                   IF f = OutputFile THEN Absent ELSE Present(OldContent)]
    /\ last_call = NoCall
    /\ nameIdle
    /\ runIdle

\* The `jobs:` of a workflow file (HEADER lines 398-474, and the headers
\* written at lines 600-610).
JobsOf(content) == SelectSeq(content, LAMBDA it : it.item = "job")

\* workflow_dispatch (HEADER lines 375-377) of one of the files written.
Dispatch ==
    /\ pc = "done" /\ ~args.run_locally
    /\ \E f \in ConfigNames :
           wf' = [jobs |-> JobsOf(files[f].content),
                  status |-> [i \in 1..Len(JobsOf(files[f].content)) |-> "waiting"]]
    /\ pc' = "engine"
    /\ UNCHANGED <<genVars, nameVars, job, sh, par>>

Completed(key) ==
    \E i \in 1..Len(wf.jobs) : wf.jobs[i].key = key /\ wf.status[i] = "completed"

\* `needs:` of a job: the engine starts it once they have all completed.
StartJob ==
    /\ pc = "engine"
    /\ \E i \in 1..Len(wf.jobs) :
           /\ wf.status[i] = "waiting"
           /\ \A n \in Range(wf.jobs[i].needs) : Completed(n)
           /\ wf' = [wf EXCEPT !.status[i] = "running"]
    /\ UNCHANGED <<pc, genVars, nameVars, job, sh, par>>

FinishJob ==
    /\ pc = "engine"
    /\ \E i \in 1..Len(wf.jobs) :
           /\ wf.status[i] = "running"
           /\ wf' = [wf EXCEPT !.status[i] = "completed"]
    /\ UNCHANGED <<pc, genVars, nameVars, job, sh, par>>

FailJob ==
    /\ pc = "engine"
    /\ \E i \in 1..Len(wf.jobs) :
           /\ wf.status[i] = "running"
           /\ wf' = [wf EXCEPT !.status[i] = "failed"]
    /\ UNCHANGED <<pc, genVars, nameVars, job, sh, par>>

NextEngine ==
    \/ StartWorkflow
    \/ GenerateBenchmarkJob
    \/ CloseWorkflow
    \/ Dispatch
    \/ StartJob
    \/ FinishJob
    \/ FailJob

SpecEngine == InitEngine /\ [][NextEngine]_vars

(***************************************************************************)
(* SpecPar: two benchmark jobs of one workflow file.  Both need only       *)
(* build_3c (line 607), so the engine may run them at the same time; each  *)
(* step runs in a shell of its own, and the shells share the disk under    *)
(* ${{env.benchmark_conv_dir}} (HEADER line 390).                          *)
(***************************************************************************)
ParTable ==
    <<ConfiguredBenchmarks[1], SynthBenchmark("s1", 1, TRUE),
      SynthBenchmark("s2", 2, FALSE)>>

\* The calls of generate_benchmark_job for a configuration that write a job.
ParTriples(c) ==
    {t \in [b : DOMAIN ParTable, e : 1..2,
            v : DOMAIN workflow_file_configs[c].variants] :
        is_allowed(ParTable[t.b], workflow_file_configs[c].variants[t.v])}

ParJob(c, t) ==
    LET workflow == workflow_file_configs[c]
        variant == workflow.variants[t.v]
    IN  [binfo |-> ParTable[t.b], expand_macros |-> t.e = 2, variant |-> variant,
         subvariant_name |-> SubvariantName(t.e = 2, variant.alltypes,
                                            variant.extra_3c_args),
         steps |-> JobSteps(ParTable[t.b], t.e = 2, variant,
                            workflow.generate_stats, FALSE)]

ParShell ==
    [state |-> "running", ip |-> 1, cwd |-> Workspace, fs |-> {},
     failed_at |-> NoFailure, log |-> <<>>, check |-> NoCheck]

\* What one command writes or removes, seen from the working directory: a
\* path, and whether the whole tree below it is concerned.
Touch(path, tree) == [path |-> path, tree |-> tree]

CmdTouches(cwd, cmd, dir_name) ==
    CASE cmd.op = "cd" -> {}
      [] cmd.op = "if -e: echo, cat, exit 1" -> {}
      [] cmd.op = "mkdir -p" -> {Touch(Resolve(cwd, cmd.path), FALSE)}
      [] cmd.op = "rm -rf" -> {Touch(Resolve(cwd, cmd.path), TRUE)}
      [] cmd.op \in {"tar -xvzf", "for-each-patch"} ->
            \* Lines 617 and 628-631: the archive {dir_name}.tar.gz holds the
            \* directory {dir_name}, and the patches, applied with -p0 from its
            \* parent, name files in it.
            {Touch(Resolve(cwd, RelPath(<<dir_name>>)), TRUE)}
      [] cmd.op = "pipeline" ->
            {Touch(cwd, TRUE)} \cup
            {Touch(Resolve(cwd, cmd.or_else[i].path), FALSE) : i \in DOMAIN cmd.or_else}
      [] OTHER -> {Touch(cwd, TRUE)}

\* The touches of the commands of a run body from the k-th on.
RECURSIVE StepTouches(_, _, _, _)
StepTouches(cwd, run, k, dir_name) ==
    IF k > Len(run) THEN {}
    ELSE CmdTouches(cwd, run[k], dir_name) \cup
         StepTouches(IF run[k].op = "cd" THEN Resolve(cwd, run[k].path) ELSE cwd,
                     run, k + 1, dir_name)

InitPar ==
    /\ pc = "par"
    /\ \E c \in DOMAIN workflow_file_configs :
           \E t1, t2 \in ParTriples(c) :
               /\ \/ t1.b < t2.b
                  \/ t1.b = t2.b /\ t1.e < t2.e
                  \/ t1.b = t2.b /\ t1.e = t2.e /\ t1.v < t2.v
               /\ par = [jobs |-> <<ParJob(c, t1), ParJob(c, t2)>>,
                         sh |-> <<ParShell, ParShell>>,
                         fs |-> {[path |-> FailedComponentsFname(ParJob(c, t).binfo,
                                               ParJob(c, t).subvariant_name),
                                  lines |-> <<"stale">>] : t \in {t1, t2}},
                         touched |-> <<{}, {}>>]
    /\ job = [steps |-> <<>>, run_locally |-> FALSE]
    /\ sh = [state |-> "idle"]
    /\ wf = [jobs |-> <<>>, status |-> <<>>]
    /\ genIdle
    /\ nameIdle

\* The shell of a job after a step: failed, or on to the next step.
ParNext(i, st) ==
    [st EXCEPT !.ip = IF st.state = "failed" THEN @ ELSE @ + 1,
               !.state = IF st.state = "failed" THEN "failed"
                         ELSE IF st.ip = Len(par.jobs[i].steps) THEN "succeeded"
                         ELSE "running",
               !.cwd = Workspace, !.fs = {}, !.failed_at = NoFailure,
               !.log = <<>>, !.check = NoCheck]

\* The exit codes of the commands of a body of n commands under errexit: the
\* shell stops at the first nonzero one, so what follows it never runs.
FirstFailure(n) == {[k \in 1..n |-> IF k = f THEN 1 ELSE 0] : f \in 0..n}

\* The exit codes of the stages of the pipeline of a step, if it has one.
StageCodes(step) ==
    IF \E k \in DOMAIN step.run : step.run[k].op = "pipeline"
    THEN [1..2 -> ExitCodes] ELSE {[k \in 1..2 |-> 0]}

\* One run step of one of the two jobs, in a new shell on the shared disk.
ParRunStep ==
    /\ pc = "par"
    /\ \E i \in DOMAIN par.jobs :
           /\ par.sh[i].state = "running"
           /\ par.jobs[i].steps[par.sh[i].ip].type = "run"
           /\ \E rcs \in FirstFailure(Len(par.jobs[i].steps[par.sh[i].ip].run)),
                 stage_rcs \in StageCodes(par.jobs[i].steps[par.sh[i].ip]) :
                  LET step == par.jobs[i].steps[par.sh[i].ip]
                      st == RunBody([par.sh[i] EXCEPT !.fs = par.fs], step, rcs,
                                    stage_rcs, 1)
                  IN  par' = [par EXCEPT
                                 !.sh[i] = ParNext(i, st),
                                 !.fs = st.fs,
                                 !.touched[i] =
                                     @ \cup StepTouches(Workspace, step.run, 1,
                                                        par.jobs[i].binfo.dir_name)]
    /\ UNCHANGED <<pc, job, sh, wf, genVars, nameVars>>

\* One action step of one of the two jobs.
ParActionStep ==
    /\ pc = "par"
    /\ \E i \in DOMAIN par.jobs :
           /\ par.sh[i].state = "running"
           /\ par.jobs[i].steps[par.sh[i].ip].type = "action"
           /\ \E rc \in ExitCodes :
                  par' = [par EXCEPT
                             !.sh[i] = ParNext(i, IF rc # 0
                                                  THEN [par.sh[i] EXCEPT !.state = "failed"]
                                                  ELSE par.sh[i])]
    /\ UNCHANGED <<pc, job, sh, wf, genVars, nameVars>>

NextPar == ParRunStep \/ ParActionStep

SpecPar == InitPar /\ [][NextPar]_vars

(***************************************************************************)
(* The last call of generate_benchmark_job, as the claims look at it.      *)
(***************************************************************************)
LastBinfo == benchmarks[last_call.b]
LastExpand == last_call.e = 2
LastVariant == workflow_file_configs[config].variants[last_call.v]
LastStats == workflow_file_configs[config].generate_stats
LastCalled == last_call # NoCall
LastAccepted == LastCalled /\ Len(out) > last_call.before
LastSteps == out[Len(out)].steps

\* The components a benchmark declares, the implicit one included.
DeclaredComponents(binfo) ==
    IF binfo.components = <<>>
    THEN <<[friendly_name |-> None, subdir |-> None, build_dir |-> None]>>
    ELSE binfo.components[1]

DisplayName(binfo, component) ==
    IF component.friendly_name \in {None, ""} THEN binfo.friendly_name
    ELSE component.friendly_name

CountSteps(steps, prefix) ==
    Cardinality({i \in 1..Len(steps) : steps[i].name[1] = prefix})

CheckStepName == <<"Check for deferred post-conversion build failures">>

\* C2: with a non-empty subvariant filter list, steps are produced for a
\* (variant, macro-expand) pair only if its canonical subvariant identifier,
\* extra-argument suffixes included, is a member of the list.
C2_FilterByIdentifier ==
    (LastAccepted /\ args.subvariants # <<>>) =>
        SubvariantName(LastExpand, LastVariant.alltypes, LastVariant.extra_3c_args)
            \in Range(args.subvariants)

\* C5: the steps of an accepted call hold exactly N conversion steps and N
\* build-converted steps for the N components of the benchmark, and one
\* aggregate failure check, as the last step, exactly when N > 1.
C5_StepCounts ==
    LastAccepted =>
        LET N == Len(DeclaredComponents(LastBinfo))
            steps == LastSteps
        IN  /\ CountSteps(steps, "Convert ") = N
            /\ CountSteps(steps, "Build converted ") = N
            /\ Cardinality({i \in 1..Len(steps) : steps[i].name = CheckStepName})
                   = IF N > 1 THEN 1 ELSE 0
            /\ N > 1 => steps[Len(steps)].name = CheckStepName

C5_Witness ==
    /\ LastAccepted
    /\ Len(DeclaredComponents(LastBinfo)) = 2
    /\ LastSteps[Len(LastSteps)].name = CheckStepName
    /\ CountSteps(LastSteps, "Convert ") = 2

\* The directory a step of a component changes into first.
ExpectedComponentParts(binfo, component) ==
    <<binfo.dir_name>> \o
    (IF component.subdir = None THEN <<>> ELSE <<component.subdir>>)

\* C6: the steps written are the build step, then for each component in
\* declared order its convert step, its stats step(s) if stats are enabled and
\* its build-converted step, then the aggregate check if there is one; nothing
\* else, and in that order.
C6_StepShape ==
    LastAccepted =>
        LET binfo == LastBinfo
            comps == DeclaredComponents(binfo)
            N == Len(comps)
            steps == LastSteps
            nstats == IF ~LastStats THEN 0 ELSE IF args.run_locally THEN 1 ELSE 2
            per == 2 + nstats
            OfComponent(step, c) ==
                /\ step.name[2] = DisplayName(binfo, c)
                /\ step.type = "run" =>
                       /\ step.run[1].op = "cd"
                       /\ step.run[1].path.parts = ExpectedComponentParts(binfo, c)
        IN  /\ Len(steps) = 1 + N * per + (IF N > 1 THEN 1 ELSE 0)
            /\ steps[1].name = <<"Build ", binfo.friendly_name>>
            /\ \A i \in 1..N :
                   LET base == 1 + (i - 1) * per
                   IN  /\ \A k \in 1..per : OfComponent(steps[base + k], comps[i])
                       /\ steps[base + 1].name[1] = "Convert "
                       /\ steps[base + per].name[1] = "Build converted "
                       /\ nstats = 1 => steps[base + 2].name[1] = "Save 3c stats of "
                       /\ nstats = 2 =>
                              /\ steps[base + 2].name[1] = "Copy 3c stats of "
                              /\ steps[base + 3].name[1] = "Upload 3c stats of "
            /\ N > 1 => steps[Len(steps)].name = CheckStepName

C6_Witness ==
    /\ LastAccepted
    /\ LastStats /\ ~args.run_locally
    /\ Len(DeclaredComponents(LastBinfo)) = 2
    /\ Len(LastSteps) = 10
    /\ LastSteps[6].name[1] = "Convert "

\* C7: with no name filters, a benchmark that disallows comparative variants
\* has no job for a comparative variant and a job for every other variant, and
\* a benchmark without the flag has a job for every variant.
C7_ComparativeFilter ==
    (pc \in {"next_workflow", "done"} /\ args.benchmarks = <<>> /\
     args.subvariants = <<>>) =>
        \A b \in 1..Len(benchmarks) :
            \A v \in 1..Len(workflow_file_configs[config].variants) :
                LET binfo == benchmarks[b]
                    variant == workflow_file_configs[config].variants[v]
                    emitted ==
                        {e \in BOOLEAN : \E i \in 1..Len(out) :
                            out[i] = JobHeader(binfo, e, variant, args.run_locally)}
                IN  /\ (binfo.disallow_for_comparative_varients /\
                        variant.is_comparative_varient) => emitted = {}
                    /\ ~variant.is_comparative_varient => emitted # {}
                    /\ ~binfo.disallow_for_comparative_varients => emitted # {}

C7_Witness ==
    /\ pc = "next_workflow" /\ config = 3
    /\ Len(benchmarks) = 2
    /\ benchmarks[1].disallow_for_comparative_varients
    /\ \A i \in 1..Len(out) : out[i].key.bench # benchmarks[1].name
    /\ \E i \in 1..Len(out) : out[i].key.bench = benchmarks[2].name
    /\ files["main"].content # OldContent
    /\ \E i \in 1..Len(files["main"].content) :
           files["main"].content[i].key.bench = benchmarks[1].name

InitialOutputFile == IF exists.out_fname THEN Present(OldContent) ELSE Absent

\* C8: in local mode, when one of the three required paths does not exist the
\* run stops in the fatal error during the path checks: no generation work is
\* done and the output file stays as it was before the run.
C8_PathsChecked ==
    (args.run_locally /\
     ~(exists.bin_3c /\ exists.port_tools /\ exists.benchmarks_dir)) =>
        /\ pc \in {"main", "check_port_tools", "check_benchmarks_dir", "fatal"}
        /\ pc = "check_port_tools" => exists.bin_3c
        /\ pc = "check_benchmarks_dir" => exists.bin_3c /\ exists.port_tools
        /\ out = <<>> /\ config = 0 /\ last_call = NoCall
        /\ files[OutputFile] = InitialOutputFile

C8_Witness ==
    /\ pc = "fatal" /\ args.run_locally
    /\ exists.bin_3c /\ exists.port_tools /\ ~exists.benchmarks_dir
    /\ ~exists.out_fname /\ files[OutputFile] = Absent
    /\ args.workflow_config = "main"

\* C9: in local mode a workflow-configuration name that matches no entry of
\* workflow_file_configs ends in the fatal error: nothing is generated and the
\* output file is neither created nor written.
C9_UnknownConfig ==
    (args.run_locally /\ args.workflow_config \notin ConfigNames) =>
        /\ pc \in {"main", "check_port_tools", "check_benchmarks_dir",
                   "lookup_config", "fatal"}
        /\ out = <<>> /\ config = 0 /\ last_call = NoCall
        /\ files[OutputFile] = InitialOutputFile

C9_Witness ==
    /\ pc = "fatal" /\ args.run_locally
    /\ exists.bin_3c /\ exists.port_tools /\ exists.benchmarks_dir
    /\ args.workflow_config \notin ConfigNames
    /\ ~exists.out_fname /\ files[OutputFile] = Absent

AllVariants ==
    UNION {Range(workflow_file_configs[i].variants) :
              i \in DOMAIN workflow_file_configs}

StepNames(steps) == [i \in 1..Len(steps) |-> steps[i].name]

\* Two (macro-expand, variant) pairs that resolve to one subvariant.
SameSubvariant(e1, v1, e2, v2) ==
    /\ SubvariantName(e1, v1.alltypes, v1.extra_3c_args) =
           SubvariantName(e2, v2.alltypes, v2.extra_3c_args)
    /\ SubvariantConvertExtra(e1, v1.alltypes, v1.extra_3c_args) =
           SubvariantConvertExtra(e2, v2.alltypes, v2.extra_3c_args)
    /\ SubvariantFriendly(e1, v1.alltypes, v1.friendly_name_suffix) =
           SubvariantFriendly(e2, v2.alltypes, v2.friendly_name_suffix)

\* The steps another call would write.
StepsOfCall(binfo, e, v, stats, local, subvariants) ==
    JobOutput(binfo, e, v, stats, local, subvariants)[2].steps

FailList ==
    FailedComponentsFname(job.binfo,
        SubvariantName(job.expand_macros, job.variant.alltypes,
                       job.variant.extra_3c_args))

ListedNames == UNION {Range(f.lines) : f \in {g \in sh.fs : g.path = FailList}}

\* What a "build converted" step reported: the name on the failure list
\* when failures are deferred, the step failing otherwise.
Reported(e) ==
    IF e.deferred THEN e.appended /\ e.name \in ListedNames
    ELSE sh.state = "failed" /\ sh.failed_at = [step |-> e.step, op |-> "pipeline"]

\* A step that fails, or a failure list: the step of a local script for a
\* benchmark of one component has neither.
Reports(e) == e.deferred \/ Errexit(job.run_locally)

Filtered == {i \in 1..Len(sh.log) : sh.log[i].has_filter}

\* C3 as stated: in the build converted step of an all-types variant the
\* reported outcome follows the exit status of the build command, never the
\* exit status of the filter.
C3_Original ==
    pc = "shell" =>
        \A i \in Filtered : Reported(sh.log[i]) <=> sh.log[i].build_rc # 0

\* C3: in the build converted step of an all-types variant the reported
\* outcome (the step failing, or the component name appended to the failure
\* list) follows the exit status of the filter, the last command of the
\* pipe: a failing build with a succeeding filter is not reported, a
\* succeeding build with a failing filter is.  In a local script the step
\* of a benchmark of one component reports nothing.
C3_FilterDecides ==
    pc = "shell" =>
        \A i \in Filtered :
            Reported(sh.log[i]) <=> Reports(sh.log[i]) /\ sh.log[i].filter_rc # 0

C3_Witness ==
    /\ pc = "shell"
    /\ Len(sh.log) = 2
    /\ sh.log[1].has_filter /\ sh.log[2].has_filter
    /\ sh.log[1].build_rc = 1 /\ sh.log[1].filter_rc = 0 /\ ~Reported(sh.log[1])
    /\ sh.log[2].build_rc = 0 /\ sh.log[2].filter_rc = 1 /\ Reported(sh.log[2])

\* A benchmark of more than one component, its job run where a failing
\* step ends the job.
MultiComponent ==
    /\ pc = "shell" /\ Errexit(job.run_locally)
    /\ Len(ComponentsOf(job.binfo)) > 1

\* The check for deferred failures, the last step, has run.
AfterLastComponent ==
    \/ sh.state = "succeeded"
    \/ sh.state = "failed" /\ sh.failed_at.step = Len(job.steps)

BuildFailed(e) == e.build_rc # 0

\* The status of the last command of the pipe.
PipelineFailed(e) == (IF e.has_filter THEN e.filter_rc ELSE e.build_rc) # 0

\* C4 as stated: for a benchmark with more than one component the job ends
\* in failure after the last component if and only if the post-conversion
\* build of at least one component failed, every failed component listed.
C4_Original ==
    MultiComponent =>
        /\ sh.state = "failed" => sh.failed_at.op # "pipeline"
        /\ AfterLastComponent =>
              /\ Len(sh.log) = Len(ComponentsOf(job.binfo))
              /\ sh.state = "failed" <=> \E i \in 1..Len(sh.log) : BuildFailed(sh.log[i])
              /\ \A i \in 1..Len(sh.log) :
                     BuildFailed(sh.log[i]) => sh.log[i].name \in ListedNames

\* C4: for a benchmark with more than one component, the last line of a
\* build converted step never fails the step, so the steps of the later
\* components run; once the check for deferred failures has run, every
\* component's build converted step has run, and the job has failed if and
\* only if the build converted pipe of at least one component ended nonzero
\* (the build command's status, or the filter's for an all-types variant),
\* with the display name of every such component on the failure list.
C4_DeferredFailures ==
    MultiComponent =>
        /\ sh.state = "failed" => sh.failed_at.op # "pipeline"
        /\ AfterLastComponent =>
              /\ Len(sh.log) = Len(ComponentsOf(job.binfo))
              /\ sh.state = "failed" <=> \E i \in 1..Len(sh.log) : PipelineFailed(sh.log[i])
              /\ \A i \in 1..Len(sh.log) :
                     PipelineFailed(sh.log[i]) => sh.log[i].name \in ListedNames

C4_Witness ==
    /\ MultiComponent
    /\ sh.state = "failed" /\ sh.failed_at.step = Len(job.steps)
    /\ Len(sh.log) = 2
    /\ PipelineFailed(sh.log[1]) /\ ~PipelineFailed(sh.log[2])
    /\ ListedNames = {sh.log[1].name}

(***************************************************************************)
(* C12: the dependencies of the jobs of a workflow.                        *)
(***************************************************************************)
CleanKey == JobKey("clean", "", <<>>)
BuildKey == JobKey("build_3c", "", <<>>)
RegressionKey == JobKey("test_3c", "", <<>>)

BenchmarkJobs == {i \in 1..Len(wf.jobs) : wf.jobs[i].key.prefix = "test_"}

NeedsOf(key) ==
    UNION {Range(wf.jobs[i].needs) : i \in {k \in 1..Len(wf.jobs) : wf.jobs[k].key = key}}

\* The keys reached from a set of keys by following `needs` up to n times.
RECURSIVE NeedsClosure(_, _)
NeedsClosure(keys, n) ==
    IF n = 0 THEN keys
    ELSE NeedsClosure(keys \cup UNION {NeedsOf(k) : k \in keys}, n - 1)

\* C12: every benchmark job needs the build job, the build job needs the
\* cleanup job and the regression-test job needs the build job; no benchmark
\* job has started before the cleanup job and the build job have completed;
\* no job needs itself, directly or through other jobs.
C12_Dependencies ==
    pc = "engine" =>
        /\ \A i \in BenchmarkJobs : wf.jobs[i].needs = <<BuildKey>>
        /\ \E i \in 1..Len(wf.jobs) :
               wf.jobs[i].key = BuildKey /\ wf.jobs[i].needs = <<CleanKey>>
        /\ \E i \in 1..Len(wf.jobs) :
               wf.jobs[i].key = RegressionKey /\ wf.jobs[i].needs = <<BuildKey>>
        /\ \A i \in BenchmarkJobs :
               wf.status[i] # "waiting" => Completed(CleanKey) /\ Completed(BuildKey)
        /\ \A i \in 1..Len(wf.jobs) :
               wf.jobs[i].key \notin
                   NeedsClosure(NeedsOf(wf.jobs[i].key), Len(wf.jobs))

C12_Witness ==
    /\ pc = "engine"
    /\ Cardinality(BenchmarkJobs) > 2
    /\ \E i, j \in BenchmarkJobs :
           /\ wf.status[i] = "running" /\ wf.status[j] = "completed"
    /\ \E i \in 1..Len(wf.jobs) :
           wf.jobs[i].key = RegressionKey /\ wf.status[i] = "waiting"

(***************************************************************************)
(* C13: the environment placeholders of a written script.                  *)
(***************************************************************************)
PathTexts(path) == {path.root} \cup Range(path.parts)

PlainCmdTexts(c) ==
    PathTexts(c.path) \cup Range(c.words) \cup Range(c.stages) \cup
    UNION {{f.flag, f.val} : f \in Range(c.flags)}

CmdTexts(c) ==
    PlainCmdTexts(c) \cup UNION {PlainCmdTexts(o) : o \in Range(c.or_else)}

StepTexts(step) ==
    Range(step.name) \cup {step.action_name} \cup PathTexts(step.with_path) \cup
    UNION {CmdTexts(c) : c \in Range(step.run)}

\* Every text of a script: titles, step names, commands.
ScriptTexts(content) ==
    UNION {{it.title.friendly} \cup Range(it.title.label) \cup
           UNION {StepTexts(st) : st \in Range(it.steps)} : it \in Range(content)}

\* The text has a `${{` in it.
Unresolved(text) ==
    \E i \in 1..(Len(text) - 2) : SubSeq(text, i, i + 2) = "${{"

\* The NAMEs of the `${{env.NAME}}` of a text.
PlaceholderNames(text) ==
    LET starts == {i \in 1..(Len(text) - 6) : SubSeq(text, i, i + 6) = "${{env."}
        closes(i) == {j \in (i + 7)..(Len(text) - 1) : SubSeq(text, j, j + 1) = "}}"}
        close(i) == IF closes(i) = {} THEN Len(text) + 1
                    ELSE CHOOSE j \in closes(i) : \A k \in closes(i) : j <= k
    IN  {SubSeq(text, i + 7, close(i) - 1) : i \in starts}

ScriptPlaceholders(content) ==
    UNION {PlaceholderNames(t) : t \in ScriptTexts(content)}

ReplacementKeys == {env_replacements[i].k : i \in DOMAIN env_replacements}

\* C13: every placeholder name of the texts generated in local mode is a key
\* of env_replacements and the script written has no `${{` left in it; a
\* workflow file is written as generated, its placeholders in place.
C13_PlaceholdersResolved ==
    /\ pc = "done" /\ args.run_locally =>
          /\ ScriptPlaceholders(out) \subseteq ReplacementKeys
          /\ \A t \in ScriptTexts(files[OutputFile].content) : ~Unresolved(t)
    /\ pc \in {"next_workflow", "done"} /\ ~args.run_locally =>
          LET content == files[workflow_file_configs[config].filename].content
          IN  /\ content = out
              /\ \A i \in 1..Len(content) :
                     content[i].item = "steps" =>
                         {"benchmark_conv_dir", "benchmark_tar_dir", "builddir"}
                             \subseteq ScriptPlaceholders(<<content[i]>>)

C13_Witness ==
    /\ pc = "done" /\ args.run_locally
    /\ benchmarks = ConfiguredBenchmarks
    /\ ScriptPlaceholders(out) = ReplacementKeys
    /\ files[OutputFile].exists
    /\ Len(files[OutputFile].content) > 1

(***************************************************************************)
(* C14: a rejected call of generate_benchmark_job.                         *)
(***************************************************************************)
\* The call about to be made is one generate_benchmark_job returns from early.
CallRejected ==
    LET binfo == benchmarks[loop[1]]
        variant == workflow_file_configs[config].variants[loop[3]]
    IN  \/ ~is_allowed(binfo, variant)
        \/ /\ args.subvariants # <<>>
           /\ SubvariantBaseName(loop[2] = 2, variant.alltypes)
                  \notin Range(args.subvariants)

\* A step that is a call of generate_benchmark_job.
IsCall == pc = "jobs" /\ last_call' # last_call

\* C14: a call of generate_benchmark_job that rejects its combination, the
\* benchmark not allowed under the variant or the subvariant filtered out,
\* leaves the output stream and the files as they were: no job header, no
\* comment header, no blank line.
C14_RejectedWritesNothing ==
    [][IsCall /\ CallRejected => out' = out /\ files' = files]_vars

\* After a call rejected by the subvariant filter in local mode, following an
\* accepted one.
C14_Witness ==
    /\ pc = "jobs" /\ args.run_locally
    /\ LastCalled
    /\ is_allowed(LastBinfo, LastVariant)
    /\ SubvariantBaseName(LastExpand, LastVariant.alltypes)
           \notin Range(args.subvariants)
    /\ Len(out) = last_call.before
    /\ Len(out) > 1

(***************************************************************************)
(* C15: the check for deferred failures.                                   *)
(***************************************************************************)
\* C15: the check step fails, printing the recorded names, if and only if the
\* failure list exists and is not empty when it runs; with the file absent,
\* or present and empty, it succeeds and prints nothing.
C15_FailsIffNonEmpty ==
    pc = "shell" /\ sh.check.ran =>
        /\ sh.check.failed <=> (sh.check.existed /\ sh.check.lines # <<>>)
        /\ sh.check.failed => SubSeq(sh.check.printed, 2, Len(sh.check.printed))
                                  = sh.check.lines
        /\ ~sh.check.failed => sh.check.printed = <<>>

(***************************************************************************)
(* C16: the stats steps.                                                   *)
(***************************************************************************)
FourStatsFiles ==
    <<"PerWildPtrStats.json", "TotalConstraintStats.json.aggregate.json",
      "TotalConstraintStats.json", "WildPtrStats.json">>

StatsStepNames == {"Copy 3c stats of ", "Save 3c stats of ", "Upload 3c stats of "}

HasCmd(step, op, path, words) ==
    \E k \in 1..Len(step.run) :
        /\ step.run[k].op = op
        /\ step.run[k].path = path
        /\ step.run[k].words = words

\* C16: with stats, the convert step of every component is followed at once
\* by its stats steps and then by its build-converted step: in a workflow
\* file a run step that copies the four stats files and then the upload
\* action, its artifact named by the display name of the component and the
\* subvariant identifier; in a local script one run step that zips the four
\* files into the shared stats directory, and no action step, so that the
\* rendering of a local script never raises.  Without stats there is no stats
\* step in either mode.
C16_StatsSteps ==
    /\ args.run_locally => pc # "exception"
    /\ LastAccepted =>
        LET steps == LastSteps
            sv == SubvariantName(LastExpand, LastVariant.alltypes,
                                 LastVariant.extra_3c_args)
            name(i) == DisplayName(LastBinfo,
                                   DeclaredComponents(LastBinfo)[steps[i].comp])
            converts == {i \in 1..Len(steps) : steps[i].name[1] = "Convert "}
            Built(i, j) == /\ j <= Len(steps)
                           /\ steps[j].name[1] = "Build converted "
                           /\ steps[j].name[2] = name(i)
        IN  IF ~LastStats
            THEN /\ \A i \in 1..Len(steps) :
                        steps[i].name[1] \notin StatsStepNames /\ steps[i].type = "run"
                 /\ \A i \in converts : Built(i, i + 1)
            ELSE IF args.run_locally
            THEN /\ \A i \in 1..Len(steps) :
                        steps[i].type = "run" /\ steps[i].form = "local"
                 /\ \A i \in converts :
                        /\ steps[i + 1].name = <<"Save 3c stats of ", name(i)>>
                        /\ steps[i + 1].artifact = [friendly |-> name(i), sv |-> sv]
                        /\ HasCmd(steps[i + 1], "zip",
                                  Path("${{env.benchmark_conv_dir}}", <<>>, <<"stats">>),
                                  FourStatsFiles)
                        /\ Built(i, i + 2)
            ELSE \A i \in converts :
                     /\ steps[i + 1].name = <<"Copy 3c stats of ", name(i)>>
                     /\ steps[i + 1].type = "run"
                     /\ HasCmd(steps[i + 1], "cp",
                               RelPath(<<"3c_performance_stats/">>), FourStatsFiles)
                     /\ steps[i + 2].name = <<"Upload 3c stats of ", name(i)>>
                     /\ steps[i + 2].type = "action"
                     /\ steps[i + 2].action_name = "actions/upload-artifact@v2"
                     /\ steps[i + 2].artifact = [friendly |-> name(i), sv |-> sv]
                     /\ Built(i, i + 3)

C16_Witness ==
    /\ pc = "done" /\ args.run_locally
    /\ LastAccepted /\ LastStats
    /\ Len(DeclaredComponents(LastBinfo)) = 2
    /\ LastSteps[3].name[1] = "Save 3c stats of "
    /\ files[OutputFile].exists

(***************************************************************************)
(* C17: the arguments of the conversion tool, position by position.        *)
(***************************************************************************)
ConvertCommands(step) ==
    {k \in 1..Len(step.run) : step.run[k].op = "convert_project.py"}

\* C17: the conversion tool is given the extra arguments of the benchmark if
\* any, then the program path, then the all-types flag if the variant is
\* all-types, then the expand-before-conversion flag if macro-expand is set,
\* then one pass-through flag per extra argument in declared order, then the
\* project path, then, last, the build directory if and only if the component
\* declares one.
C17_ConvertArguments ==
    pc = "name_done" =>
        /\ Cardinality(ConvertCommands(sv_out.convert)) = 1
        /\ \A k \in ConvertCommands(sv_out.convert) :
               LET flags == sv_out.convert.run[k].flags
                   eargs == sv_in.extra_3c_args
                   extra == {i \in 1..Len(flags) : flags[i].flag = "--skip t2"}
                   prog == Cardinality(extra) + 1
                   all == IF sv_in.alltypes THEN 1 ELSE 0
                   exp == IF sv_in.expand_macros THEN 1 ELSE 0
                   project == prog + all + exp + Len(eargs) + 1
                   build == IF sv_out.component.build_dir = None THEN 0 ELSE 1
               IN  /\ extra = IF sv_out.component.build_dir = None THEN {} ELSE {1}
                   /\ Len(flags) = project + build
                   /\ flags[prog].flag = "--prog_name"
                   /\ flags[prog].val = "${{env.builddir}}/bin/3c"
                   /\ sv_in.alltypes =>
                          /\ flags[prog + 1].flag = "--extra-3c-arg="
                          /\ flags[prog + 1].arg =
                                 <<"-", "a", "l", "l", "t", "y", "p", "e", "s">>
                   /\ sv_in.expand_macros =>
                          flags[prog + all + 1].flag =
                              "--expand_macros_before_conversion"
                   /\ \A i \in 1..Len(eargs) :
                          /\ flags[prog + all + exp + i].flag = "--extra-3c-arg="
                          /\ flags[prog + all + exp + i].arg = eargs[i]
                   /\ flags[project].flag = "--project_path"
                   /\ flags[project].val = "."
                   /\ build = 1 =>
                          /\ flags[Len(flags)].flag = "--build_dir"
                          /\ flags[Len(flags)].val = sv_out.component.build_dir

C17_Witness ==
    /\ pc = "name_done"
    /\ sv_in.alltypes /\ sv_in.expand_macros
    /\ Len(sv_in.extra_3c_args) = 2
    /\ sv_in.extra_3c_args[1] # sv_in.extra_3c_args[2]
    /\ sv_out.component.build_dir # None
    /\ Len(sv_out.convert.run[2].flags) = 8

(***************************************************************************)
(* C18: one job per triple that passes the filters, in the order of the    *)
(* three loops.                                                            *)
(***************************************************************************)
\* The headers of the benchmark jobs in a text, in the order they appear.
JobHeaders(text) ==
    SelectSeq(text, LAMBDA it : \/ it.item = "comment"
                                \/ it.item = "job" /\ it.key.prefix = "test_")

\* The n-th triple of benchmark table x (False, True) x variants.
Triple(n, variants) ==
    [b |-> ((n - 1) \div (2 * Len(variants))) + 1,
     e |-> (((n - 1) \div Len(variants)) % 2) + 1,
     v |-> ((n - 1) % Len(variants)) + 1]

\* The position of the loops among the triples.
LoopPosition(l, variants) ==
    (l[1] - 1) * 2 * Len(variants) + (l[2] - 1) * Len(variants) + l[3]

PassesFilters(t, variants) ==
    LET binfo == benchmarks[t.b]
        variant == variants[t.v]
    IN  /\ args.benchmarks = <<>>
           \/ \E i \in DOMAIN args.benchmarks : args.benchmarks[i] = binfo.name
        /\ binfo.disallow_for_comparative_varients => ~variant.is_comparative_varient
        /\ args.subvariants = <<>>
           \/ \E i \in DOMAIN args.subvariants :
                  args.subvariants[i] = SubvariantBaseName(t.e = 2, variant.alltypes)

\* The triples handled so far that pass the three filters, in order.
PassedTriples ==
    LET variants == workflow_file_configs[config].variants
    IN  SelectSeq([n \in 1..(LoopPosition(loop, variants) - 1) |->
                      Triple(n, variants)],
                  LAMBDA t : PassesFilters(t, variants))

\* C18: the benchmark jobs written for a configuration are, one for one and
\* in the same order, the triples (benchmark, macro-expand, variant) that pass
\* the benchmark-name filter, is_allowed and the subvariant filter, taken in
\* the order of the benchmark table, then macro-expand false before true,
\* then the order of the variants of the configuration.
C18_OneJobPerTriple ==
    pc \in {"jobs", "next_workflow", "done"} =>
        LET variants == workflow_file_configs[config].variants
            passed == PassedTriples
        IN  JobHeaders(out) =
                [i \in 1..Len(passed) |->
                    JobHeader(benchmarks[passed[i].b], passed[i].e = 2,
                              variants[passed[i].v], args.run_locally)]

C18_Witness ==
    /\ pc = "done"
    /\ args.benchmarks # <<>> /\ args.subvariants # <<>>
    /\ Len(workflow_file_configs[config].variants) >= 2
    /\ Len(JobHeaders(out)) >= 2
    /\ \E i \in 1..(Len(JobHeaders(out)) - 1) :
           JobHeaders(out)[i] # JobHeaders(out)[i + 1]

(***************************************************************************)
(* C19: the job keys of a workflow file.                                   *)
(***************************************************************************)
\* A string as the sequence of its characters.
Chars(str) == [i \in 1..Len(str) |-> SubSeq(str, i, i)]

\* The key as it is written in the file: `clean`, `test_{name}_{subvariant}`.
KeyText(key) ==
    IF key.prefix = "test_"
    THEN Chars(key.prefix) \o Chars(key.bench) \o <<"_">> \o key.sv
    ELSE Chars(key.prefix)

KeyTexts(content) ==
    LET jobs == SelectSeq(content, LAMBDA it : it.item = "job")
    IN  [i \in 1..Len(jobs) |-> KeyText(jobs[i].key)]

FixedKeyTexts == {Chars("clean"), Chars("build_3c"), Chars("test_3c")}

DistinctKeys(content) ==
    LET keys == KeyTexts(content)
    IN  /\ \A i, j \in 1..Len(keys) : i # j => keys[i] # keys[j]
        /\ \A i \in 4..Len(keys) : keys[i] \notin FixedKeyTexts

\* C19: in every workflow file written, and in the one being written, the
\* keys of the benchmark jobs are pairwise distinct as texts and none of them
\* is clean, build_3c or test_3c.
C19_DistinctJobKeys ==
    ~args.run_locally =>
        /\ DistinctKeys(out)
        /\ \A f \in ConfigNames : DistinctKeys(files[f].content)

C19_Witness ==
    /\ pc = "done" /\ ~args.run_locally
    /\ benchmarks = ConfiguredBenchmarks
    /\ \A f \in ConfigNames :
           /\ Len(KeyTexts(files[f].content)) > 3 + Len(ConfiguredBenchmarks)
           /\ {KeyTexts(files[f].content)[i] : i \in 1..3} = FixedKeyTexts

(***************************************************************************)
(* C20: two jobs of one workflow keep to their own directories.            *)
(***************************************************************************)
WorkDir(j) == BenchmarkDir(par.jobs[j].binfo, par.jobs[j].subvariant_name)

FailureList(j) ==
    FailedComponentsFname(par.jobs[j].binfo, par.jobs[j].subvariant_name)

\* A touch reaches into dir, or removes or rewrites a tree that holds dir.
Overlaps(t, dir) == Under(t.path, dir) \/ (t.tree /\ Under(dir, t.path))

FilesUnder(fs, dir) == {f \in fs : Under(f.path, dir)}

\* The working directories of the jobs of the configured table, for every
\* workflow file: no two jobs of a file have the same one.
ConfiguredJobs(c) ==
    {t \in [b : DOMAIN ConfiguredBenchmarks, e : BOOLEAN,
            v : DOMAIN workflow_file_configs[c].variants] :
        is_allowed(ConfiguredBenchmarks[t.b], workflow_file_configs[c].variants[t.v])}

ConfiguredWorkDir(c, t) ==
    BenchmarkDir(ConfiguredBenchmarks[t.b],
                 SubvariantName(t.e, workflow_file_configs[c].variants[t.v].alltypes,
                                workflow_file_configs[c].variants[t.v].extra_3c_args))

ConfiguredDirsDistinct ==
    \A c \in DOMAIN workflow_file_configs :
        \A t1, t2 \in ConfiguredJobs(c) :
            t1 # t2 => ~Under(ConfiguredWorkDir(c, t1), ConfiguredWorkDir(c, t2))

\* C20: two distinct benchmark jobs of one workflow have different working
\* directories and different failure lists, neither directory inside the
\* other; whichever of the two runs a step, and in whatever order the steps
\* interleave, the files under the other job's working directory, its
\* failure list among them, are after the step what they were before, and
\* nothing the step removes, extracts, builds or appends to lies in or
\* around the other job's working directory.
C20_JobsDoNotInterfere ==
    [][pc = "par" =>
        /\ ConfiguredDirsDistinct
        /\ \A i, j \in DOMAIN par.jobs :
               i # j =>
                   /\ WorkDir(i) # WorkDir(j)
                   /\ FailureList(i) # FailureList(j)
                   /\ ~Under(WorkDir(i), WorkDir(j))
                   /\ par'.sh[i] # par.sh[i] =>
                          /\ FilesUnder(par'.fs, WorkDir(j)) =
                                 FilesUnder(par.fs, WorkDir(j))
                          /\ \A t \in par'.touched[i] : ~Overlaps(t, WorkDir(j))
                          /\ \E t \in par'.touched[i] : Overlaps(t, WorkDir(i))]_vars

C20_Witness ==
    /\ pc = "par"
    /\ par.sh[1].state = "running" /\ par.sh[1].ip > 1
    /\ par.sh[2].state = "running" /\ par.sh[2].ip > 1
    /\ par.jobs[1].binfo = par.jobs[2].binfo
    /\ \E f \in par.fs : f.path = FailureList(1) /\ "stale" \notin Range(f.lines)
    /\ \A f \in par.fs : f.path # FailureList(2)

(***************************************************************************)
(* C21: the artifact names of the upload steps of a workflow file.         *)
(***************************************************************************)
\* The name as it is written: `{component_friendly_name}_{subvariant_name}`.
ArtifactText(artifact) == Chars(artifact.friendly) \o <<"_">> \o artifact.sv

\* The upload steps of a text, by the item and the step they are in.
Uploads(content) ==
    {p \in UNION {{<<i, j>> : j \in DOMAIN content[i].steps} : i \in DOMAIN content} :
        content[p[1]].steps[p[2]].type = "action"}

UploadName(content, p) == ArtifactText(content[p[1]].steps[p[2]].artifact)

\* As many names as upload steps: no two steps have the same name.
DistinctArtifacts(content) ==
    LET uploads == Uploads(content)
    IN  Cardinality({UploadName(content, p) : p \in uploads}) = Cardinality(uploads)

\* C21: in every workflow file written from the configured benchmark table,
\* and in the one being written, the artifact names of the upload steps,
\* compared as texts, are pairwise distinct across all jobs and components.
C21_DistinctArtifactNames ==
    (~args.run_locally /\ benchmarks = ConfiguredBenchmarks) =>
        /\ DistinctArtifacts(out)
        /\ \A f \in ConfigNames : DistinctArtifacts(files[f].content)

C21_Witness ==
    /\ pc = "done" /\ ~args.run_locally
    /\ benchmarks = ConfiguredBenchmarks
    /\ \E f \in ConfigNames :
           LET content == files[f].content
           IN  /\ Cardinality(Uploads(content)) > 2 * Len(ConfiguredBenchmarks)
               /\ \E p, q \in Uploads(content) :
                      /\ content[p[1]].steps[p[2]].artifact.friendly =
                             content[q[1]].steps[q[2]].artifact.friendly
                      /\ content[p[1]].steps[p[2]].artifact.sv #
                             content[q[1]].steps[q[2]].artifact.sv
               /\ \E p, q \in Uploads(content) :
                      /\ p[1] = q[1] /\ p # q
                      /\ content[p[1]].steps[p[2]].artifact.sv =
                             content[q[1]].steps[q[2]].artifact.sv

=============================================================================
